---- MODULE Spec2Model ----
(***************************************************************************)
(* Model of the LLM response normalization pipeline of ai-http-tester:     *)
(* the server handler /api/ai-analyze (server.js) with extractAndCleanJSON *)
(* and attemptJSONRepair, and the client's classification of the answer in *)
(* handleAskAI (script.js).                                                *)
(*                                                                         *)
(* A JavaScript string is a sequence of one-character strings.  Indices in *)
(* the model are 1-based; 0 stands for JavaScript's -1 ("not found").      *)
(***************************************************************************)
EXTENDS Integers, Sequences, FiniteSets, TLC

----------------------------------------------------------------------------
(* Characters *)

NL == "\n"
TAB == "\t"
DQ == "\""
BS == "\\"
AP == "'"
\* the backtick (the lexer of TLA+ takes no backtick inside a string)
BT == "BACKTICK"

WhiteSpace == {" ", NL, TAB, "\r"}

Digits == {"0", "1", "2", "3", "4", "5", "6", "7", "8", "9"}

\* String.prototype.toLowerCase on one character
LowerChar(c) ==
    CASE c = "A" -> "a" [] c = "B" -> "b" [] c = "C" -> "c" [] c = "D" -> "d"
      [] c = "E" -> "e" [] c = "F" -> "f" [] c = "G" -> "g" [] c = "H" -> "h"
      [] c = "I" -> "i" [] c = "J" -> "j" [] c = "K" -> "k" [] c = "L" -> "l"
      [] c = "M" -> "m" [] c = "N" -> "n" [] c = "O" -> "o" [] c = "P" -> "p"
      [] c = "Q" -> "q" [] c = "R" -> "r" [] c = "S" -> "s" [] c = "T" -> "t"
      [] c = "U" -> "u" [] c = "V" -> "v" [] c = "W" -> "w" [] c = "X" -> "x"
      [] c = "Y" -> "y" [] c = "Z" -> "z"
      [] OTHER -> c

----------------------------------------------------------------------------
(* String primitives *)

MinOf(S) == CHOOSE x \in S : \A y \in S : x <= y

MaxOf(S) == CHOOSE x \in S : \A y \in S : x >= y

\* the least element of S, or d when S is empty
FirstOr(S, d) == IF S = {} THEN d ELSE MinOf(S)

\* the greatest element of S, or d when S is empty
LastOr(S, d) == IF S = {} THEN d ELSE MaxOf(S)

\* s.startsWith(p, i-1)
StartsWithAt(s, i, p) ==
    /\ i >= 1
    /\ i + Len(p) - 1 <= Len(s)
    /\ \A k \in 1..Len(p) : s[i + k - 1] = p[k]

\* the same under the regex flag i
StartsWithAtCI(s, i, p) ==
    /\ i >= 1
    /\ i + Len(p) - 1 <= Len(s)
    /\ \A k \in 1..Len(p) : LowerChar(s[i + k - 1]) = LowerChar(p[k])

\* s.indexOf(p, i-1) + 1
IndexOfFrom(s, p, i) ==
    FirstOr({j \in i..(Len(s) - Len(p) + 1) : StartsWithAt(s, j, p)}, 0)

IndexOf(s, p) == IndexOfFrom(s, p, 1)

\* s.indexOf(c, i-1) + 1 for the one character c
IndexOfCharFrom(s, c, i) == FirstOr({j \in i..Len(s) : s[j] = c}, 0)

\* s.lastIndexOf(c) + 1 for the one character c
LastIndexOfChar(s, c) == LastOr({j \in 1..Len(s) : s[j] = c}, 0)

\* s.includes(p)
Includes(s, p) == \E j \in 1..(Len(s) - Len(p) + 1) : StartsWithAt(s, j, p)

\* s.substring(i-1)
From(s, i) == SubSeq(s, i, Len(s))

\* s.substring(0, j)
Upto(s, j) == SubSeq(s, 1, j)

\* the index after the run of whitespace that starts at i (the regex \s*)
SkipWS(s, i) == FirstOr({j \in i..Len(s) : s[j] \notin WhiteSpace}, Len(s) + 1)

\* String.prototype.trim
Trim(s) ==
    SubSeq(s, FirstOr({j \in 1..Len(s) : s[j] \notin WhiteSpace}, 1),
              LastOr({j \in 1..Len(s) : s[j] \notin WhiteSpace}, 0))

\* the number of matches of the one-character pattern c: (s.match(/c/g) || []).length
CountChar(s, c) == Cardinality({j \in 1..Len(s) : s[j] = c})

\* n copies of the character c, appended one per loop iteration
Repeat(c, n) == [j \in 1..n |-> c]

----------------------------------------------------------------------------
(* extractAndCleanJSON: the Sanitizer and the Locator *)

ThinkOpen == <<"<", "t", "h", "i", "n", "k", ">">>
ThinkClose == <<"<", "/", "t", "h", "i", "n", "k", ">">>
Fence == <<BT, BT, BT>>
FenceJson == <<BT, BT, BT, "j", "s", "o", "n">>
WordJson == <<"j", "s", "o", "n">>
FenceJso == <<BT, BT, BT, "j", "s", "o">>

\* text.replace(/<think>[\s\S]*?<\/think>/g, ''): one left-to-right pass; each match
\* runs from a <think> to the first </think> after it, and the scan resumes after
\* the match (the text joined by a removal is not scanned again).
RECURSIVE RemoveThink(_)
RemoveThink(s) ==
    LET Cut(o, c) ==
            IF c = 0 THEN s
            ELSE Upto(s, o - 1) \o RemoveThink(From(s, c + Len(ThinkClose)))
        Open(o) ==
            Cut(o, IF o = 0 THEN 0 ELSE IndexOfFrom(s, ThinkClose, o + Len(ThinkOpen)))
    IN  Open(IndexOf(s, ThinkOpen))

\* server.js line 183
Sanitize(text) == Trim(RemoveThink(text))

\* s.replace(/^```json\s*/i, '')
StripLeadingFenceJson(s) ==
    IF StartsWithAtCI(s, 1, FenceJson) THEN From(s, SkipWS(s, Len(FenceJson) + 1)) ELSE s

\* s.replace(/^```\s*/i, '')
StripLeadingFence(s) ==
    IF StartsWithAt(s, 1, Fence) THEN From(s, SkipWS(s, Len(Fence) + 1)) ELSE s

\* s.replace(/```\s*$/i, ''): the leftmost ``` that only whitespace follows
StripTrailingFence(s) ==
    Upto(s, FirstOr({j \in 1..(Len(s) - 2) :
                        StartsWithAt(s, j, Fence) /\ SkipWS(s, j + 3) = Len(s) + 1},
                    Len(s) + 1) - 1)

\* s.replace(/^(json|```json?)\s*/i, '')
StripAIPrefix(s) ==
    IF StartsWithAtCI(s, 1, WordJson)
    THEN From(s, SkipWS(s, Len(WordJson) + 1))
    ELSE IF StartsWithAtCI(s, 1, FenceJso)
         THEN From(s, SkipWS(s, IF Len(s) >= 7 /\ LowerChar(s[7]) = "n" THEN 8 ELSE 7))
         ELSE s

\* server.js line 186
StripFenceMarkers(s) ==
    Trim(StripTrailingFence(StripLeadingFence(StripLeadingFenceJson(s))))

NoMatch == [found |-> FALSE, text |-> <<>>]

Match(text) == [found |-> TRUE, text |-> text]

\* s.match(open \s* ([\s\S]*?) ```): the match and its group 1
FencedMatch(s, open) ==
    LET Close(o, c) ==
            IF c = 0 THEN NoMatch ELSE Match(SubSeq(s, SkipWS(s, o + Len(open)), c - 1))
        Open(o) ==
            Close(o, IF o = 0 THEN 0 ELSE IndexOfFrom(s, Fence, o + Len(open)))
    IN  Open(IndexOf(s, open))

\* server.js line 189: the first pattern, or else the second
JsonMatch(cleanedText) ==
    LET Or(m) == IF m.found THEN m ELSE FencedMatch(cleanedText, Fence)
    IN  Or(FencedMatch(cleanedText, FenceJson))

\* cleanedText.match(/\{[\s\S]*\}/): from the first { to the last } after it
ObjectMatch(s) ==
    LET Span(o, c) == IF o # 0 /\ c > o THEN Match(SubSeq(s, o, c)) ELSE NoMatch
    IN  Span(IndexOfCharFrom(s, "{", 1), LastIndexOfChar(s, "}"))

\* server.js lines 190-199
LocateJSON(cleanedText) ==
    LET Object(jsonString, objectMatch) ==
            IF objectMatch.found THEN objectMatch.text ELSE jsonString
        Plain(jsonString) ==
            IF StartsWithAt(jsonString, 1, <<"{">>) THEN jsonString
            ELSE Object(jsonString, ObjectMatch(cleanedText))
        Located(jsonMatch) ==
            IF jsonMatch.found THEN Trim(jsonMatch.text) ELSE Plain(Trim(cleanedText))
    IN  Located(JsonMatch(cleanedText))

\* server.js lines 206-210: cut before the first {
CutBeforeFirstBrace(s) ==
    LET Cut(firstBrace) == IF firstBrace > 1 THEN From(s, firstBrace) ELSE s
    IN  Cut(IndexOfCharFrom(s, "{", 1))

\* the candidate with the text after its last } left in place
CutAfterLastBraceKept(s) == s

\* server.js lines 213-217: cut after the last }
CutAfterLastBrace(s) ==
    LET Cut(lastBrace) ==
            IF lastBrace # 0 /\ lastBrace < Len(s) THEN Upto(s, lastBrace) ELSE s
    IN  Cut(LastIndexOfChar(s, "}"))

extractAndCleanJSON(text) ==
    Trim(CutAfterLastBrace(CutBeforeFirstBrace(
        StripTrailingFence(StripAIPrefix(LocateJSON(StripFenceMarkers(Sanitize(text))))))))

----------------------------------------------------------------------------
(* JSON values.  Every value is a record of one shape, so that any two
   values can be compared:
     t  the type: "null", "true", "false", "num", "str", "arr", "obj"
     s  the characters of a string, or the lexeme of a number
     k  the keys of an object, in insertion order
     a  the elements of an array, or the member values of an object *)

JNull == [t |-> "null", s |-> <<>>, k |-> <<>>, a |-> <<>>]
JTrue == [t |-> "true", s |-> <<>>, k |-> <<>>, a |-> <<>>]
JFalse == [t |-> "false", s |-> <<>>, k |-> <<>>, a |-> <<>>]
JNum(lexeme) == [t |-> "num", s |-> lexeme, k |-> <<>>, a |-> <<>>]
JStr(chars) == [t |-> "str", s |-> chars, k |-> <<>>, a |-> <<>>]
JArr(elems) == [t |-> "arr", s |-> <<>>, k |-> <<>>, a |-> elems]
JObj(keys, vals) == [t |-> "obj", s |-> <<>>, k |-> keys, a |-> vals]


\* obj[key] = val: a repeated key keeps its first place and takes the last value
ObjPut(o, key, val) ==
    LET Put(at) ==
            IF at = 0
            THEN JObj(Append(o.k, key), Append(o.a, val))
            ELSE JObj(o.k, [o.a EXCEPT ![at] = val])
    IN  Put(FirstOr({j \in 1..Len(o.k) : o.k[j] = key}, 0))

HasKey(v, key) == v.t = "obj" /\ \E j \in 1..Len(v.k) : v.k[j] = key

\* v[key] of an object that has the key
Get(v, key) == v.a[CHOOSE j \in 1..Len(v.k) : v.k[j] = key]

----------------------------------------------------------------------------
(* JSON.parse (ECMA-404), as a recursive-descent parser over the characters.
   A result is [ok, val, pos, ctx, ch]: on success val is the value and pos
   the index after it; on failure pos is the index of the offending
   character, ch that character ("EOS" at the end of the input) and ctx what
   the parser was reading there. *)

ParseOk(v, i) == [ok |-> TRUE, val |-> v, pos |-> i, ctx |-> "", ch |-> ""]

ParseErr(ctx, s, i) ==
    [ok |-> FALSE, val |-> JNull, pos |-> i, ctx |-> ctx,
     ch |-> IF i > Len(s) THEN "EOS" ELSE s[i]]

HexDigits == Digits \cup {"a", "b", "c", "d", "e", "f", "A", "B", "C", "D", "E", "F"}

\* the character a one-letter escape stands for ("" when the escape is invalid)
Unescape(e) ==
    CASE e = DQ -> DQ [] e = BS -> BS [] e = "/" -> "/"
      [] e = "n" -> NL [] e = "t" -> TAB [] e = "r" -> "\r"
      [] e = "b" -> "BACKSPACE" [] e = "f" -> "FORMFEED"
      [] OTHER -> ""

\* what the escape at index i (a backslash) adds to a string: [len, ch, bad, ctx],
\* with len the length of the escape, ch the character it stands for, bad the
\* index of the character that makes it invalid (0: the escape is valid) and
\* ctx the error that character raises
EscapeAt(s, i) ==
    IF i + 1 > Len(s) THEN [len |-> 0, ch |-> "", bad |-> i + 1, ctx |-> "unterminated"]
    ELSE IF s[i + 1] = "u"
    THEN [len |-> 6,
          ch |-> "U+",
          bad |-> FirstOr({j \in (i + 2)..(i + 5) : j > Len(s) \/ s[j] \notin HexDigits}, 0),
          ctx |-> "unicode"]
    ELSE [len |-> 2,
          ch |-> Unescape(s[i + 1]),
          bad |-> IF Unescape(s[i + 1]) = "" THEN i + 1 ELSE 0,
          ctx |-> "escape"]

\* the characters of a string literal, from index i (after the opening quote)
RECURSIVE ParseStringBody(_, _, _)
ParseStringBody(s, i, acc) ==
    LET Escaped(e) ==
            IF e.bad # 0 THEN ParseErr(e.ctx, s, e.bad)
            ELSE ParseStringBody(s, i + e.len,
                                 Append(acc, IF e.len = 6
                                             THEN "U+" \o s[i + 2] \o s[i + 3] \o s[i + 4] \o s[i + 5]
                                             ELSE e.ch))
    IN  IF i > Len(s) THEN ParseErr("unterminated", s, i)
        ELSE IF s[i] = DQ THEN ParseOk(JStr(acc), i + 1)
        ELSE IF s[i] \in {NL, TAB, "\r"} THEN ParseErr("control", s, i)
        ELSE IF s[i] = BS THEN Escaped(EscapeAt(s, i))
        ELSE ParseStringBody(s, i + 1, Append(acc, s[i]))

\* the index after the run of digits that starts at i
DigitsEnd(s, i) == FirstOr({j \in i..Len(s) : s[j] \notin Digits}, Len(s) + 1)

IsDigitAt(s, i) == i <= Len(s) /\ s[i] \in Digits

\* -?(0|[1-9][0-9]*)(\.[0-9]+)?([eE][+-]?[0-9]+)?
ParseNumber(s, i) ==
    LET Exponent(j2, j2s) ==
            IF j2 > Len(s) \/ s[j2] \notin {"e", "E"}
            THEN ParseOk(JNum(SubSeq(s, i, j2 - 1)), j2)
            ELSE IF ~IsDigitAt(s, j2s) THEN ParseErr("number", s, j2s)
            ELSE ParseOk(JNum(SubSeq(s, i, DigitsEnd(s, j2s) - 1)), DigitsEnd(s, j2s))
        Sign(j2) ==
            Exponent(j2, IF j2 + 1 <= Len(s) /\ s[j2 + 1] \in {"+", "-"}
                         THEN j2 + 2 ELSE j2 + 1)
        Fraction(j1) ==
            IF j1 > Len(s) \/ s[j1] # "." THEN Sign(j1)
            ELSE IF ~IsDigitAt(s, j1 + 1) THEN ParseErr("number", s, j1 + 1)
            ELSE Sign(DigitsEnd(s, j1 + 1))
        Integer(j0) ==
            IF ~IsDigitAt(s, j0) THEN ParseErr("number", s, j0)
            ELSE Fraction(IF s[j0] = "0" THEN j0 + 1 ELSE DigitsEnd(s, j0))
    IN  Integer(IF s[i] = "-" THEN i + 1 ELSE i)

\* one of the literals true, false, null
ParseLiteral(s, i, word, v) ==
    LET Word(bad) ==
            IF bad = 0 THEN ParseOk(v, i + Len(word))
            ELSE ParseErr("literal", s, i + bad - 1)
    IN  Word(FirstOr({j \in 1..Len(word) : i + j - 1 > Len(s) \/ s[i + j - 1] # word[j]}, 0))

Literals ==
    [t |-> [word |-> <<"t", "r", "u", "e">>, val |-> JTrue],
     f |-> [word |-> <<"f", "a", "l", "s", "e">>, val |-> JFalse],
     n |-> [word |-> <<"n", "u", "l", "l">>, val |-> JNull]]

RECURSIVE ParseValue(_, _), ParseElements(_, _, _), ParseMembers(_, _, _, _)

\* a value that starts at index i (whitespace already skipped)
ParseValue(s, i) ==
    LET Object(j) ==
            IF j <= Len(s) /\ s[j] = "}"
            THEN ParseOk(JObj(<<>>, <<>>), j + 1)
            ELSE ParseMembers(s, j, JObj(<<>>, <<>>), "propFirst")
        Array(j) ==
            IF j <= Len(s) /\ s[j] = "]"
            THEN ParseOk(JArr(<<>>), j + 1)
            ELSE ParseElements(s, j, <<>>)
    IN  IF i > Len(s) THEN ParseErr("value", s, i)
        ELSE IF s[i] = DQ THEN ParseStringBody(s, i + 1, <<>>)
        ELSE IF s[i] = "{" THEN Object(SkipWS(s, i + 1))
        ELSE IF s[i] = "[" THEN Array(SkipWS(s, i + 1))
        ELSE IF s[i] \in Digits \cup {"-"} THEN ParseNumber(s, i)
        ELSE IF s[i] \in DOMAIN Literals
             THEN ParseLiteral(s, i, Literals[s[i]].word, Literals[s[i]].val)
        ELSE ParseErr("value", s, i)

\* the elements of an array from index i, after those of acc
ParseElements(s, i, acc) ==
    LET After(r, j) ==
            IF j <= Len(s) /\ s[j] = ","
            THEN ParseElements(s, SkipWS(s, j + 1), Append(acc, r.val))
            ELSE IF j <= Len(s) /\ s[j] = "]"
            THEN ParseOk(JArr(Append(acc, r.val)), j + 1)
            ELSE ParseErr("commaArr", s, j)
        Element(r) == IF r.ok THEN After(r, SkipWS(s, r.pos)) ELSE r
    IN  Element(ParseValue(s, i))

\* the members of an object from index i, added to o
ParseMembers(s, i, o, ctx) ==
    LET After(members, j) ==
            IF j <= Len(s) /\ s[j] = ","
            THEN ParseMembers(s, SkipWS(s, j + 1), members, "propNext")
            ELSE IF j <= Len(s) /\ s[j] = "}"
            THEN ParseOk(members, j + 1)
            ELSE ParseErr("commaObj", s, j)
        Member(key, r) ==
            IF r.ok THEN After(ObjPut(o, key.val.s, r.val), SkipWS(s, r.pos)) ELSE r
        Colon(key, c) ==
            IF c > Len(s) \/ s[c] # ":" THEN ParseErr("colon", s, c)
            ELSE Member(key, ParseValue(s, SkipWS(s, c + 1)))
        Key(key) == IF key.ok THEN Colon(key, SkipWS(s, key.pos)) ELSE key
    IN  IF i > Len(s) \/ s[i] # DQ THEN ParseErr(ctx, s, i)
        ELSE Key(ParseStringBody(s, i + 1, <<>>))

\* JSON.parse(s): one value, with whitespace around it and nothing else
JSONParse(s) ==
    LET End(r, j) == IF j <= Len(s) THEN ParseErr("trailing", s, j) ELSE r
        Value(r) == IF r.ok THEN End(r, SkipWS(s, r.pos)) ELSE r
    IN  Value(ParseValue(s, SkipWS(s, 1)))

----------------------------------------------------------------------------
(* The message of the SyntaxError that JSON.parse throws.  The text is V8's
   and differs between engine generations; the code reads it (includes), so
   the engine is part of the environment:
     "legacy"   Node.js up to 18: the message names the token at the
                offending character, "Unexpected token X in JSON at position N"
     "current"  Node.js 20 and later: a message per grammar rule, and
                "Unexpected token 'X', "..." is not valid JSON" where a value
                was expected
   A message is [text, ch, pos]: the template, the character it quotes and
   the 0-based position it reports (-1 when it reports none).  The excerpt of
   the input that the current engine quotes is left out. *)

Engines == {"legacy", "current"}

NoError == [text |-> "", ch |-> "", pos |-> -1]

TokenMessage(engine, e) ==
    IF e.ch = "EOS"
    THEN [text |-> "Unexpected end of JSON input", ch |-> "", pos |-> -1]
    ELSE IF e.ch = DQ
    THEN [text |-> "Unexpected string in JSON at position %", ch |-> "", pos |-> e.pos - 1]
    ELSE IF e.ch \in Digits \cup {"-"}
    THEN [text |-> "Unexpected number in JSON at position %", ch |-> "", pos |-> e.pos - 1]
    ELSE IF engine = "legacy"
    THEN [text |-> "Unexpected token % in JSON at position %", ch |-> e.ch, pos |-> e.pos - 1]
    ELSE [text |-> "Unexpected token '%', ... is not valid JSON", ch |-> e.ch, pos |-> -1]

RuleText(ctx) ==
    CASE ctx = "propFirst" -> "Expected property name or '}' in JSON at position %"
      [] ctx = "propNext" -> "Expected double-quoted property name in JSON at position %"
      [] ctx = "colon" -> "Expected ':' after property name in JSON at position %"
      [] ctx = "commaObj" -> "Expected ',' or '}' after property value in JSON at position %"
      [] ctx = "commaArr" -> "Expected ',' or ']' after array element in JSON at position %"
      [] ctx = "trailing" -> "Unexpected non-whitespace character after JSON at position %"
      [] ctx = "escape" -> "Bad escaped character in JSON at position %"
      [] ctx = "unicode" -> "Bad Unicode escape in JSON at position %"
      [] ctx = "control" -> "Bad control character in string literal in JSON at position %"
      [] ctx = "unterminated" -> "Unterminated string in JSON at position %"
      [] ctx = "number" -> "Malformed number in JSON at position %"
      [] OTHER -> ""

\* error.message of the SyntaxError for the failed parse result e
ErrorMessage(engine, e) ==
    IF engine = "legacy" \/ RuleText(e.ctx) = ""
    THEN TokenMessage(engine, e)
    ELSE [text |-> RuleText(e.ctx), ch |-> "", pos |-> e.pos - 1]

\* message.includes("Unexpected token '")
IncludesUnexpectedTokenQuote(msg) ==
    \/ msg.text = "Unexpected token % in JSON at position %" /\ msg.ch = AP
    \/ msg.text = "Unexpected token '%', ... is not valid JSON"

\* message.includes("Unexpected string")
IncludesUnexpectedString(msg) ==
    msg.text = "Unexpected string in JSON at position %"

\* the message as the characters of a string (one element per part)
MessageChars(msg) == <<msg.text, msg.ch, ToString(msg.pos)>>

----------------------------------------------------------------------------
(* attemptJSONRepair *)

WarnAutoRepaired == "Response was auto-repaired due to formatting issues."
WarnTruncated == "Response was truncated but repaired. Some data may be incomplete."
WarnExtracted == "Extracted first complete JSON object from response."
\* warning: undefined (or null)
NoWarning == ""

\* workingString.includes("\\'")
HasInvalidEscapes(s) == Includes(s, <<BS, AP>>)

\* workingString.replace(/\\'/g, "'")
RECURSIVE ReplaceInvalidEscapes(_)
ReplaceInvalidEscapes(s) ==
    LET At(p) ==
            IF p = 0 THEN s
            ELSE Upto(s, p - 1) \o <<AP>> \o ReplaceInvalidEscapes(From(s, p + 2))
    IN  At(IndexOf(s, <<BS, AP>>))

Methods == <<<<"P", "O", "S", "T">>, <<"G", "E", "T">>, <<"P", "U", "T">>, <<"D", "E", "L", "E", "T", "E">>, <<"P", "A", "T", "C", "H">>>>

\* the length of the alternative of (POST|GET|PUT|DELETE|PATCH) that matches at m
\* under the flag i (0: none)
MethodLenAt(s, m) ==
    LET Alt(a) == IF a = 0 THEN 0 ELSE Len(Methods[a])
    IN  Alt(FirstOr({a \in 1..Len(Methods) : StartsWithAtCI(s, m, Methods[a])}, 0))

RequestParameter == <<" ", "r", "e", "q", "u", "e", "s", "t", " ", "p", "a", "r", "a", "m", "e", "t", "e", "r">>

NoInlineMatch == [found |-> FALSE, last |-> 0, text |-> <<>>]

\* One match of
\*   /"([^"]*?)"\s*:\s*"([^"]*?)(POST|GET|PUT|DELETE|PATCH)[^"]*?\([^)]*?\)[^"]*?"/gi
\* that starts at the quote at index st: [found, last, text], with last the index
\* of the closing quote and text the replacement
\*   `"${key}": "${prefix}${method} request parameter"`.
\* The lazy quantifiers take the first method, then the first ( after it for which
\* a ) and a closing quote follow; [^)]*? may run across quotes.
InlineMatchAt(s, st) ==
    LET QuoteAfter(cp) == IF cp = 0 THEN 0 ELSE IndexOfCharFrom(s, DQ, cp + 1)
        CloseQuote(p) == QuoteAfter(IndexOfCharFrom(s, ")", p + 1))
        Replace(q1, b, m, p) ==
            [found |-> TRUE, last |-> CloseQuote(p),
             text |-> <<DQ>> \o SubSeq(s, st + 1, q1 - 1) \o <<DQ, ":", " ", DQ>>
                      \o SubSeq(s, b + 1, m + MethodLenAt(s, m) - 1)
                      \o RequestParameter \o <<DQ>>]
        Paren(q1, b, m, ps) ==
            IF m = 0 THEN NoInlineMatch
            ELSE Replace(q1, b, m, MinOf({p \in ps : p >= m + MethodLenAt(s, m)}))
        Method(q1, b, qn, ps) ==
            Paren(q1, b,
                  FirstOr({m \in (b + 1)..(qn - 1) :
                              /\ MethodLenAt(s, m) > 0
                              /\ \E p \in ps : p >= m + MethodLenAt(s, m)}, 0),
                  ps)
        Value(q1, b, qn) ==
            Method(q1, b, qn, {p \in (b + 1)..(qn - 1) : s[p] = "(" /\ CloseQuote(p) # 0})
        Open(q1, b) ==
            IF b > Len(s) \/ s[b] # DQ THEN NoInlineMatch
            ELSE Value(q1, b, FirstOr({j \in (b + 1)..Len(s) : s[j] = DQ}, Len(s) + 1))
        Colon(q1, a) ==
            IF a > Len(s) \/ s[a] # ":" THEN NoInlineMatch ELSE Open(q1, SkipWS(s, a + 1))
        Key(q1) == IF q1 = 0 THEN NoInlineMatch ELSE Colon(q1, SkipWS(s, q1 + 1))
    IN  Key(IndexOfCharFrom(s, DQ, st + 1))

\* the global replace of the pattern above, from index i on
RECURSIVE ReplaceInlineExamples(_, _)
ReplaceInlineExamples(s, i) ==
    LET Splice(st, mt) ==
            SubSeq(s, i, st - 1) \o mt.text \o ReplaceInlineExamples(s, mt.last + 1)
        At(st) == IF st = 0 THEN From(s, i) ELSE Splice(st, InlineMatchAt(s, st))
    IN  At(FirstOr({st \in i..Len(s) : s[st] = DQ /\ InlineMatchAt(s, st).found}, 0))

\* server.js lines 239-240
InlineExampleTrigger(originalError) ==
    IncludesUnexpectedTokenQuote(originalError) \/ IncludesUnexpectedString(originalError)

\* server.js lines 226-254: workingString after the two cleanups
CleanedWorkingString(jsonString, originalError) ==
    LET Inline(w) ==
            IF InlineExampleTrigger(originalError) THEN ReplaceInlineExamples(w, 1) ELSE w
    IN  Inline(IF HasInvalidEscapes(jsonString)
               THEN ReplaceInvalidEscapes(jsonString) ELSE jsonString)

(* The result of one strategy: tried (a parse was attempted), success, data,
   warning and err (the result of the failed parse).  Every JSON.parse of
   attemptJSONRepair is inside a try, so a failed parse goes on to the next
   strategy. *)
StepResult(tried, r, warning) ==
    [tried |-> tried, success |-> tried /\ r.ok, data |-> r.val,
     warning |-> IF tried /\ r.ok THEN warning ELSE NoWarning,
     err |-> r]

NotTried == StepResult(FALSE, ParseErr("", <<>>, 1), NoWarning)

\* server.js lines 263-265
CleanupWarning(jsonString, originalError) ==
    IF HasInvalidEscapes(jsonString) \/ IncludesUnexpectedTokenQuote(originalError)
    THEN WarnAutoRepaired ELSE NoWarning

\* server.js lines 256-269: parse the cleaned text
CleanupStep(jsonString, workingString, originalError) ==
    StepResult(TRUE, JSONParse(workingString), CleanupWarning(jsonString, originalError))

MarkerPayloads == <<DQ, "p", "a", "y", "l", "o", "a", "d", "s", DQ, ":", " ", "[">>
MarkerEvidence == <<DQ, "e", "v", "i", "d", "e", "n", "c", "e", DQ, ":", " ", "[">>

\* server.js line 272
LooksTruncated(workingString) ==
    Includes(workingString, MarkerPayloads) \/ Includes(workingString, MarkerEvidence)

\* server.js lines 274-288: append the missing closers
CloseBrackets(workingString) ==
    workingString
      \o Repeat("]", CountChar(workingString, "[") - CountChar(workingString, "]"))
      \o Repeat("}", CountChar(workingString, "{") - CountChar(workingString, "}"))

\* server.js lines 271-297: Strategy 1
TruncationStep(workingString) ==
    IF LooksTruncated(workingString)
    THEN StepResult(TRUE, JSONParse(CloseBrackets(workingString)), WarnTruncated)
    ELSE NotTried

\* server.js lines 304-315: braceCount after the character at index i
BraceCount(s, firstBrace, i) ==
    Cardinality({j \in firstBrace..i : s[j] = "{"})
      - Cardinality({j \in firstBrace..i : s[j] = "}"})

\* server.js lines 302-315: the index of the } that brings the brace count back
\* to 0, counting from the first { (0: there is none)
BalancedEnd(s) ==
    LET Scan(firstBrace) ==
            IF firstBrace = 0 THEN 0
            ELSE FirstOr({i \in firstBrace..Len(s) : BraceCount(s, firstBrace, i) = 0}, 0)
    IN  Scan(IndexOfCharFrom(s, "{", 1))

\* server.js lines 299-326: Strategy 2
ExtractionStep(workingString) ==
    LET Cut(endIndex) ==
            IF endIndex = 0 THEN NotTried
            ELSE StepResult(TRUE,
                            JSONParse(SubSeq(workingString,
                                             IndexOfCharFrom(workingString, "{", 1), endIndex)),
                            WarnExtracted)
    IN  Cut(BalancedEnd(workingString))

----------------------------------------------------------------------------
(* The client's reading of a value (script.js): property access and
   truthiness as JavaScript defines them. *)

\* undefined: what reading a missing property gives
JUndefined == [t |-> "undefined", s |-> <<>>, k |-> <<>>, a |-> <<>>]

\* v[key] for a value v that is not null (an array, a string, a number or a
\* boolean has none of the keys the client reads)
Prop(v, key) == IF HasKey(v, key) THEN Get(v, key) ELSE JUndefined

\* the digits of a number's lexeme before its exponent
Mantissa(lexeme) ==
    LET es == {j \in 1..Len(lexeme) : lexeme[j] \in {"e", "E"}}
    IN  IF es = {} THEN lexeme ELSE Upto(lexeme, MinOf(es) - 1)

\* a test of the key's presence in place of ToBoolean: `'key' in data`
TruthyByPresence(v) == v.t # "undefined"

\* ToBoolean(v): false for undefined, null, false, 0 and ""
Truthy(v) ==
    CASE v.t \in {"undefined", "null", "false"} -> FALSE
      [] v.t = "str" -> v.s # <<>>
      [] v.t = "num" -> \E j \in 1..Len(Mantissa(v.s)) :
                            Mantissa(v.s)[j] \in Digits \ {"0"}
      [] OTHER -> TRUE

KeyInjectionPoints == <<"i", "n", "j", "e", "c", "t", "i", "o", "n", "P", "o", "i", "n", "t", "s">>
KeyPayloads == <<"p", "a", "y", "l", "o", "a", "d", "s">>
KeyVerdict == <<"v", "e", "r", "d", "i", "c", "t">>
KeyExplanation == <<"e", "x", "p", "l", "a", "n", "a", "t", "i", "o", "n">>
KeyEvidence == <<"e", "v", "i", "d", "e", "n", "c", "e">>
KeyMessage == <<"m", "e", "s", "s", "a", "g", "e">>
KeyParseError == <<"p", "a", "r", "s", "e", "E", "r", "r", "o", "r">>
KeyHint == <<"h", "i", "n", "t">>

\* script.js line 138: if (data.data.parseError)
ReportsParseError(data) == Truthy(Prop(data, KeyParseError))

\* script.js lines 151-192: the branch that handles data.data
Classify(data) ==
    IF Truthy(Prop(data, KeyInjectionPoints)) /\ Truthy(Prop(data, KeyPayloads))
    THEN "CombinedReport"
    ELSE IF Truthy(Prop(data, KeyInjectionPoints)) THEN "InjectionReport"
    ELSE IF Truthy(Prop(data, KeyPayloads)) THEN "PayloadReport"
    ELSE IF Truthy(Prop(data, KeyVerdict)) THEN "AnalysisVerdict"
    ELSE IF Truthy(Prop(data, KeyExplanation)) THEN "Generic"
    ELSE "FreeText"

\* updateInjectionPointSelector (script.js lines 733-741) raises a TypeError:
\* injectionPoints.forEach is no function, or point.name is read of null
PointsThrow(injectionPoints) ==
    \/ injectionPoints.t # "arr"
    \/ \E j \in 1..Len(injectionPoints.a) : injectionPoints.a[j].t = "null"

\* payloads.forEach(payload => payload.substring(0, 50) ...) raises a TypeError
\* (script.js lines 711-716 and 765-770)
PayloadsThrow(payloads) ==
    \/ payloads.t # "arr"
    \/ \E j \in 1..Len(payloads.a) : payloads.a[j].t # "str"

\* displayAnalysisResult (script.js lines 807-866) raises a TypeError:
\* verdict.toLowerCase or evidence.forEach is no function
AnalysisThrows(data) ==
    Prop(data, KeyVerdict).t # "str" \/ Prop(data, KeyEvidence).t # "arr"

\* script.js lines 179-182: displayMessage.includes('```json') raises a TypeError
FreeTextThrows(data) ==
    /\ Truthy(Prop(data, KeyMessage))
    /\ Prop(data, KeyMessage).t \notin {"str", "arr"}

\* whether the handler of the branch raises an exception on data.data
HandlerThrows(variant, data) ==
    CASE variant = "CombinedReport" ->
            PointsThrow(Prop(data, KeyInjectionPoints)) \/ PayloadsThrow(Prop(data, KeyPayloads))
      [] variant = "InjectionReport" -> PointsThrow(Prop(data, KeyInjectionPoints))
      [] variant = "PayloadReport" -> PayloadsThrow(Prop(data, KeyPayloads))
      [] variant = "AnalysisVerdict" -> AnalysisThrows(data)
      [] variant = "FreeText" -> FreeTextThrows(data)
      [] OTHER -> FALSE


----------------------------------------------------------------------------
(* The replies of the model endpoint that the state machine starts from *)

\* the longest sequence of pieces a reply is put together from
MaxPieces == 3

\* the most members of a generated object
MaxMembers == 2

\* all sequences of at most n elements of V
SeqsUpTo(V, n) == UNION {[1..m -> V] : m \in 0..n}

RECURSIVE Flatten(_)
Flatten(pieces) ==
    IF pieces = <<>> THEN <<>> ELSE Head(pieces) \o Flatten(Tail(pieces))

RECURSIVE Join(_, _)
Join(pieces, sep) ==
    IF pieces = <<>> THEN <<>>
    ELSE IF Len(pieces) = 1 THEN pieces[1]
    ELSE pieces[1] \o sep \o Join(Tail(pieces), sep)

\* reasoning blocks around text
ThinkPieces == {ThinkOpen, ThinkClose, <<"p", "l", "a", "n">>, <<NL>>, <<"{", DQ, "a", DQ, ":", "1", "}">>}

ThinkReplies == {Flatten(f) : f \in SeqsUpTo(ThinkPieces, MaxPieces)}

\* a reasoning block, its tags written in one of three cases, before an object
CasedTags ==
    {[open |-> ThinkOpen, close |-> ThinkClose],
     [open |-> <<"<", "T", "H", "I", "N", "K", ">">>, close |-> <<"<", "/", "T", "H", "I", "N", "K", ">">>],
     [open |-> <<"<", "T", "h", "i", "n", "k", ">">>, close |-> <<"<", "/", "T", "h", "i", "n", "k", ">">>]}

ReasoningPieces == {<<"p", "l", "a", "n">>, <<NL>>, <<"{", "x", "}">>}

AnswerObject == <<"{", DQ, "a", DQ, ":", "1", "}">>

CasedThinkReplies ==
    {tag.open \o Flatten(f) \o tag.close \o AnswerObject :
        tag \in CasedTags, f \in SeqsUpTo(ReasoningPieces, MaxPieces - 1)}

\* one string value with escapes in it
EscapePieces ==
    {<<BS, AP>>, <<BS, BS>>, <<AP>>, <<"i", "t">>,
     <<"P", "O", "S", "T", " ", "/", "u", "(", "1", ")">>,
     <<"P", "O", "S", "T", " ", "f", "(", DQ, DQ, ")">>}

EscapeReplies ==
    {<<"{", DQ, "e", "x", "p", "l", "a", "n", "a", "t", "i", "o", "n", DQ, ":", " ", DQ>> \o Flatten(f) \o <<DQ, "}">> : f \in SeqsUpTo(EscapePieces, MaxPieces)}

\* a payload list cut off after a complete string
PayloadLiterals == {<<DQ, "a", DQ>>, <<DQ, "b", "]", DQ>>, <<DQ, "{", "c", DQ>>, <<DQ, BS, AP, DQ>>}

TruncatedReplies ==
    {<<"{", DQ, "p", "a", "y", "l", "o", "a", "d", "s", DQ, ":", " ", "[">> \o Join(f, <<",">>) :
        f \in SeqsUpTo(PayloadLiterals, MaxPieces) \ {<<>>}}

\* an object with text after it
LeadObjects == {<<"{", DQ, "a", DQ, ":", DQ, "b", DQ, "}">>, <<"{", DQ, "a", DQ, ":", DQ, "}", DQ, "}">>, <<"{", DQ, "p", "a", "y", "l", "o", "a", "d", "s", DQ, ":", " ", "[", DQ, "a", DQ, "]", "}">>, <<"{", DQ, "a", DQ, ":", DQ, BS, AP, DQ, "}">>}

TrailPieces == {<<"}">>, <<" ", "x">>, <<"{">>, <<NL, BT, BT, BT>>}

TrailingReplies ==
    {o \o Flatten(f) : o \in LeadObjects, f \in SeqsUpTo(TrailPieces, MaxPieces)}

\* an object in a json fence, with text before and after the fence
PadPieces == {<<"{", "x", "}">>, <<"o", "k", NL>>, <<BT, BT, BT, NL, "t", NL, BT, BT, BT, NL>>}

FencedReply(before, object, after) ==
    Flatten(before) \o FenceJson \o <<NL>> \o object \o <<NL>> \o Fence \o Flatten(after)

FencedReplies ==
    {FencedReply(b, o, a) :
        b \in SeqsUpTo(PadPieces, MaxPieces - 2), o \in LeadObjects,
        a \in SeqsUpTo(PadPieces, MaxPieces - 2)}

\* the most payloads of a reply that holds payloads only
MaxPayloads == 22

\* n payloads: p1, p2, ..., the number written with its last digit
CountedPayloads(n) ==
    [j \in 1..n |-> <<"p", <<"0", "1", "2", "3", "4", "5", "6", "7", "8", "9">>[(j % 10) + 1]>>]

CountedReply(n) ==
    <<"{", DQ, "p", "a", "y", "l", "o", "a", "d", "s", DQ, ":", "[">>
      \o Join([j \in 1..n |-> <<DQ>> \o CountedPayloads(n)[j] \o <<DQ>>], <<",">>)
      \o <<"]", "}">>

CountedReplies == {CountedReply(n) : n \in 0..MaxPayloads}

\* text that is no JSON
GarbagePieces == {<<"h", "e", "l", "l", "o", " ", "w", "o", "r", "l", "d", ",", " ", "n", "o", "t", " ", "j", "s", "o", "n">>, <<"{", DQ, "a", DQ, ":">>, <<DQ, BS, AP, DQ>>, <<" ", "x">>, <<"}">>, <<"j", "s", "o", "n", " ">>}

GarbageReplies == {Flatten(f) : f \in SeqsUpTo(GarbagePieces, MaxPieces)}

\* values that are no objects
ScalarReplies == {<<"n", "u", "l", "l">>, <<"7">>, <<DQ, "s", DQ>>, <<"[", "]">>, <<"t", "r", "u", "e">>}

\* the members an object is generated from: [key, text], key numbering the
\* property so that an object takes each property at most once
Members ==
    << [key |-> 1, text |-> <<DQ, "i", "n", "j", "e", "c", "t", "i", "o", "n", "P", "o", "i", "n", "t", "s", DQ, ":", "n", "u", "l", "l">>],
       [key |-> 1, text |-> <<DQ, "i", "n", "j", "e", "c", "t", "i", "o", "n", "P", "o", "i", "n", "t", "s", DQ, ":", DQ, DQ>>],
       [key |-> 1, text |-> <<DQ, "i", "n", "j", "e", "c", "t", "i", "o", "n", "P", "o", "i", "n", "t", "s", DQ, ":", "7">>],
       [key |-> 1, text |-> <<DQ, "i", "n", "j", "e", "c", "t", "i", "o", "n", "P", "o", "i", "n", "t", "s", DQ, ":", "[", DQ, "q", DQ, "]">>],
       [key |-> 1, text |-> <<DQ, "i", "n", "j", "e", "c", "t", "i", "o", "n", "P", "o", "i", "n", "t", "s", DQ, ":", "[", "n", "u", "l", "l", "]">>],
       [key |-> 2, text |-> <<DQ, "p", "a", "y", "l", "o", "a", "d", "s", DQ, ":", "n", "u", "l", "l">>],
       [key |-> 2, text |-> <<DQ, "p", "a", "y", "l", "o", "a", "d", "s", DQ, ":", "0">>],
       [key |-> 2, text |-> <<DQ, "p", "a", "y", "l", "o", "a", "d", "s", DQ, ":", DQ, "s", DQ>>],
       [key |-> 2, text |-> <<DQ, "p", "a", "y", "l", "o", "a", "d", "s", DQ, ":", "[", DQ, "a", DQ, "]">>],
       [key |-> 2, text |-> <<DQ, "p", "a", "y", "l", "o", "a", "d", "s", DQ, ":", "[", "7", "]">>],
       [key |-> 3, text |-> <<DQ, "v", "e", "r", "d", "i", "c", "t", DQ, ":", "n", "u", "l", "l">>],
       [key |-> 3, text |-> <<DQ, "v", "e", "r", "d", "i", "c", "t", DQ, ":", "f", "a", "l", "s", "e">>],
       [key |-> 3, text |-> <<DQ, "v", "e", "r", "d", "i", "c", "t", DQ, ":", "7">>],
       [key |-> 3, text |-> <<DQ, "v", "e", "r", "d", "i", "c", "t", DQ, ":", DQ, "s", "u", "c", "c", "e", "s", "s", DQ>>],
       [key |-> 4, text |-> <<DQ, "e", "x", "p", "l", "a", "n", "a", "t", "i", "o", "n", DQ, ":", DQ, DQ>>],
       [key |-> 4, text |-> <<DQ, "e", "x", "p", "l", "a", "n", "a", "t", "i", "o", "n", DQ, ":", DQ, "e", DQ>>],
       [key |-> 4, text |-> <<DQ, "e", "x", "p", "l", "a", "n", "a", "t", "i", "o", "n", DQ, ":", DQ, "<", "t", "h", "i", "n", "k", ">", "a", "<", BS, "/", "t", "h", "i", "n", "k", ">", DQ>>],
       [key |-> 5, text |-> <<DQ, "e", "v", "i", "d", "e", "n", "c", "e", DQ, ":", "[", "]">>],
       [key |-> 5, text |-> <<DQ, "e", "v", "i", "d", "e", "n", "c", "e", DQ, ":", "n", "u", "l", "l">>],
       [key |-> 6, text |-> <<DQ, "m", "e", "s", "s", "a", "g", "e", DQ, ":", DQ, "m", DQ>>],
       [key |-> 6, text |-> <<DQ, "m", "e", "s", "s", "a", "g", "e", DQ, ":", "7">>],
       [key |-> 7, text |-> <<DQ, "p", "a", "r", "s", "e", "E", "r", "r", "o", "r", DQ, ":", DQ, "p", DQ>>] >>

MemberChoices ==
    UNION {{f \in [1..m -> 1..Len(Members)] :
               \A i \in 1..(m - 1) : Members[f[i]].key < Members[f[i + 1]].key} :
           m \in 0..MaxMembers}

ObjectText(f) ==
    <<"{">> \o Join([i \in 1..Len(f) |-> Members[f[i]].text], <<",">>) \o <<"}">>

ObjectReplies == {ObjectText(f) : f \in MemberChoices}

Replies ==
    ThinkReplies \cup CasedThinkReplies \cup EscapeReplies \cup TruncatedReplies \cup TrailingReplies \cup FencedReplies \cup CountedReplies
      \cup GarbageReplies \cup ScalarReplies \cup ObjectReplies

----------------------------------------------------------------------------
(* The requests to /api/ai-analyze, and the mode they are sent in *)

\* handleAskAI sends no empty prompt (script.js lines 94-95)
Prompts ==
    {Flatten(f) : f \in SeqsUpTo(
        {<<"a", "n", "a", "l", "y", "z", "e">>, <<"A", "n", "a", "L", "Y", "Z", "E">>,
         <<"a", "n", "a", "l", "y", "s", "e">>, <<" ">>,
         <<"f", "i", "n", "d", " ", "i", "n", "j", "e", "c", "t", "i", "o", "n", " ", "p", "o", "i", "n", "t", "s">>},
        MaxPieces - 1)} \ {<<>>}

\* a raw request
RawRequest == <<"G", "E", "T", " ", "/", "u", " ", "H", "T", "T", "P", "/", "1", ".", "1">>

\* a raw request that holds the keyword of line 531
RawRequestWithKeyword ==
    <<"G", "E", "T", " ", "/", "?", "r", "e", "s", "p", "o", "n", "s", "e", ":", "1", " ", "H", "T", "T", "P", "/", "1", ".", "1">>

NoContext == [isNull |-> TRUE, text |-> <<>>]

\* context: request || null (script.js line 115): null, or pieces of text: the
\* raw requests, the context of the Analyze button (script.js line 286) and the
\* keyword with and without its colon
Contexts ==
    {[isNull |-> FALSE, text |-> Flatten(f)] : f \in SeqsUpTo(
        {RawRequest, RawRequestWithKeyword,
         <<"R", "e", "q", "u", "e", "s", "t", ":", NL, "G", "E", "T", " ", "/", "u", NL, NL, "R", "e", "s", "p", "o", "n", "s", "e", ":", NL, "o", "k">>,
         <<"R", "E", "S", "P", "O", "N", "S", "E", ":">>,
         <<"r", "e", "s", "p", "o", "n", "s", "e">>},
        MaxPieces - 2) \ {<<>>}}
      \cup {NoContext}

\* server.js lines 530-531: prompt.toLowerCase().includes('analyze') ||
\* context?.toLowerCase().includes('response:')
IsAnalysisRequest(prompt, context) ==
    \/ Includes([j \in 1..Len(prompt) |-> LowerChar(prompt[j])],
                <<"a", "n", "a", "l", "y", "z", "e">>)
    \/ /\ ~context.isNull
       /\ Includes([j \in 1..Len(context.text) |-> LowerChar(context.text[j])],
                   <<"r", "e", "s", "p", "o", "n", "s", "e", ":">>)

\* the request body with the temperatures of the two modes exchanged
RequestBodyCrossed(prompt, context) ==
    [system |-> IF IsAnalysisRequest(prompt, context)
                THEN "systemPromptAnalysis" ELSE "systemPromptDiscovery",
     user |-> IF context.isNull
              THEN prompt
              ELSE <<"U", "s", "e", "r", ":", " ">> \o prompt
                     \o <<NL, NL, "C", "o", "n", "t", "e", "x", "t", ":", NL>> \o context.text,
     temperature |-> IF IsAnalysisRequest(prompt, context) THEN "0.6" ELSE "0.1"]

\* server.js lines 533-560: the two messages and the temperature of the
\* request body (a context that is null is no part of the user message)
RequestBody(prompt, context) ==
    [system |-> IF IsAnalysisRequest(prompt, context)
                THEN "systemPromptAnalysis" ELSE "systemPromptDiscovery",
     user |-> IF context.isNull
              THEN prompt
              ELSE <<"U", "s", "e", "r", ":", " ">> \o prompt
                     \o <<NL, NL, "C", "o", "n", "t", "e", "x", "t", ":", NL>> \o context.text,
     temperature |-> IF IsAnalysisRequest(prompt, context) THEN "0.1" ELSE "0.6"]

\* no request: before the body is built, and after it was sent
NoRequest == [system |-> "", user |-> <<>>, temperature |-> ""]

----------------------------------------------------------------------------
(* What handleAskAI and its handlers add to the page *)

\* payloads.length > 20 of script.js lines 697 and 755
AdvisoryThreshold == 20

\* the count the advisory's text and the console warning name as expected
\* (script.js lines 756-757)
SoftCap == 15

\* the advisory added above the soft cap of 15 payloads
PayloadAdvisoryAtCap(payloads) ==
    IF payloads.t = "arr" /\ Len(payloads.a) > SoftCap THEN <<"advisory">> ELSE <<>>

\* script.js lines 697-700 and 755-758: payloads && payloads.length > 20, of
\* an array or of a string (the length of another value is undefined)
PayloadAdvisory(payloads) ==
    IF \/ payloads.t = "arr" /\ Len(payloads.a) > AdvisoryThreshold
       \/ payloads.t = "str" /\ Len(payloads.s) > AdvisoryThreshold
    THEN <<"advisory">> ELSE <<>>

\* the options without those of the payloads after the twentieth
PayloadOptionsCapped(payloads) ==
    IF payloads.t # "arr" THEN <<>>
    ELSE [j \in 1..MinOf({AdvisoryThreshold,
                          FirstOr({i \in 1..Len(payloads.a) : payloads.a[i].t # "str"},
                                  Len(payloads.a) + 1) - 1}) |-> payloads.a[j].s]

\* script.js lines 708-716 and 764-770: the values of the options appended to
\* payloadSelect, one for each payload until substring raises on one that is
\* no string; none when payloads has no forEach
PayloadOptions(payloads) ==
    IF payloads.t # "arr" THEN <<>>
    ELSE [j \in 1..(FirstOr({i \in 1..Len(payloads.a) : payloads.a[i].t # "str"},
                            Len(payloads.a) + 1) - 1) |-> payloads.a[j].s]

\* if (explanation) addChatMessage('ai', explanation)
Explained(data) ==
    IF Truthy(Prop(data, KeyExplanation)) THEN <<"explanation">> ELSE <<>>

\* a catch that removes the loading message and adds no message of its own
ClosingSilent(variant, data) ==
    IF HandlerThrows(variant, data) THEN <<>>
    ELSE IF Truthy(Prop(data, KeyExplanation)) THEN <<>> ELSE <<"status">>

\* the last message of a handler: the catch's error message (script.js line
\* 199) when the handler raised, or else the status message it adds when the
\* data has no explanation
Closing(variant, data) ==
    IF HandlerThrows(variant, data) THEN <<"error">>
    ELSE IF Truthy(Prop(data, KeyExplanation)) THEN <<>> ELSE <<"status">>

\* the messages the branch adds to the chat, by kind
BranchMessages(variant, data, rawMessage) ==
    CASE variant \in {"CombinedReport", "PayloadReport"} ->
            Explained(data) \o PayloadAdvisory(Prop(data, KeyPayloads)) \o Closing(variant, data)
      [] variant \in {"InjectionReport", "AnalysisVerdict"} ->
            Explained(data) \o Closing(variant, data)
      [] variant = "Generic" -> <<"generic">>
      [] OTHER ->
            IF FreeTextThrows(data) THEN <<"error">>
            ELSE IF Truthy(Prop(data, KeyMessage)) \/ rawMessage # <<>> THEN <<"freeText">>
            ELSE <<"received">>

KeyConfidence == <<"c", "o", "n", "f", "i", "d", "e", "n", "c", "e">>

\* ${v} in a template literal: ToString of a value (an array joins the texts
\* of its elements, null and undefined among them as the empty text)
RECURSIVE TemplateText(_)
TemplateText(v) ==
    CASE v.t \in {"str", "num"} -> v.s
      [] v.t = "undefined" -> <<"u", "n", "d", "e", "f", "i", "n", "e", "d">>
      [] v.t = "null" -> <<"n", "u", "l", "l">>
      [] v.t = "true" -> <<"t", "r", "u", "e">>
      [] v.t = "false" -> <<"f", "a", "l", "s", "e">>
      [] v.t = "arr" ->
            Join([j \in 1..Len(v.a) |->
                     IF v.a[j].t \in {"null", "undefined"} THEN <<>> ELSE TemplateText(v.a[j])],
                 <<",">>)
      [] OTHER -> <<"[", "o", "b", "j", "e", "c", "t", " ", "O", "b", "j", "e", "c", "t", "]">>

\* verdict: 'Not analyzed' of script.js line 250
NotAnalyzed == <<"N", "o", "t", " ", "a", "n", "a", "l", "y", "z", "e", "d">>

\* a verdict that is filed as an entry of its own, after the latest one
appendHistoryVerdict(entries, verdict, confidence) ==
    IF Len(entries) = 0 THEN entries
    ELSE Append(entries,
                [entries[Len(entries)] EXCEPT !.verdict =
                    TemplateText(verdict) \o <<" ", "(">> \o TemplateText(confidence) \o <<"%", ")">>])

\* script.js lines 952-959: the verdict text is written to the last entry of
\* state.history; an empty history is left alone
updateLatestHistoryVerdict(entries, verdict, confidence) ==
    IF Len(entries) = 0 THEN entries
    ELSE [entries EXCEPT ![Len(entries)].verdict =
             TemplateText(verdict) \o <<" ", "(">> \o TemplateText(confidence) \o <<"%", ")">>]

----------------------------------------------------------------------------

VARIABLES
    prompt,          \* req.body.prompt
    context,         \* req.body.context
    requestBody,     \* server.js lines 547-560
    firstPass,       \* the outcome of the first run, when the data is run again
    chat,            \* the messages of the chat, by kind
    statePayloads,   \* state.payloads
    payloadOptions,  \* the values of the options of payloadSelect
    engine,          \* the JavaScript engine the server runs on
    reply,           \* response.data.choices[0].message.content
    pc,              \* the position in the handler, then in handleAskAI
    cleanedText,     \* server.js line 183: the reply without its reasoning blocks
    jsonString,      \* server.js line 592
    parseError,      \* the message of the error the direct parse raised
    workingString,   \* attemptJSONRepair's workingString
    lastError,       \* the message of the latest SyntaxError raised so far
    strategy,        \* the step that produced parsedResponse
    parsedResponse,  \* server.js line 596
    warning,         \* server.js line 597
    res,             \* the HTTP response of /api/ai-analyze
    outcome,         \* the branch of handleAskAI that ran
    threw,           \* an exception was raised inside that branch
    stateInjectionPoints,  \* state.injectionPoints
    history,               \* state.history
    payloadSelect,         \* payloadSelect.value
    injectionPointSelect,  \* injectionPointSelect.value
    requestEditor,         \* requestEditor.value
    responseEditor,        \* responseEditor.value
    lastSentRequest,       \* state.lastSentRequest
    send,                  \* the call of handleSendRequest that is under way
    analysis,              \* the call of handleAnalyzeResponse that is under way
    analyzeBtn,            \* analyzeBtn.disabled and analyzeBtn.textContent
    asks                   \* the calls of handleAskAI of a chat with several requests

vars == <<prompt, context, requestBody, firstPass, chat, statePayloads, payloadOptions,
          engine, reply, pc, cleanedText, jsonString, parseError, workingString, lastError,
          strategy, parsedResponse, warning, res, outcome, threw,
          stateInjectionPoints, history, payloadSelect, injectionPointSelect,
          requestEditor, responseEditor, lastSentRequest, send, analysis, analyzeBtn, asks>>

\* content: null, as an endpoint sends with a tool call or a refusal
NoContent == [isString |-> FALSE, text |-> <<>>]

StringReply(text) == [isString |-> TRUE, text |-> text]

NoResponse ==
    [status |-> 0, success |-> FALSE, data |-> JNull, rawMessage |-> <<>>,
     warning |-> NoWarning]

NoFirstPass == [done |-> FALSE, outcome |-> "none"]

\* the most calls of handleAskAI under way at once
MaxAsks == 3

\* state.lastSentRequest: null (script.js line 59)
NullRequest == [isNull |-> TRUE, text |-> <<>>]

\* what responseEditor shows: nothing, 'Sending request...', the response
\* with its status, or the error text of script.js line 254
EmptyEditor == [kind |-> "empty", status |-> 0]

NoParsedRequest == [method |-> <<>>, url |-> <<>>, headers |-> <<>>, body |-> <<>>]

NoConfig == [method |-> <<>>, url |-> <<>>, headers |-> <<>>, hasData |-> FALSE, data |-> <<>>]

\* no call of handleSendRequest is under way
IdleSend ==
    [pc |-> "idle", parsedRequest |-> NoParsedRequest, payload |-> <<>>, config |-> NoConfig]

\* no call of handleAnalyzeResponse is under way
IdleAnalysis == [pc |-> "idle", request |-> <<>>, response |-> EmptyEditor]

\* script.js lines 331-332
AnalyzeButton == [disabled |-> FALSE, textContent |-> "Analyze Response"]

\* the chat and the selectors as the script leaves them when the page has
\* loaded (script.js lines 54-60), with no click under way
PageLoaded ==
    /\ chat = <<>>
    /\ statePayloads = JUndefined
    /\ payloadOptions = <<>>
    /\ stateInjectionPoints = JArr(<<>>)
    /\ payloadSelect = <<>>
    /\ injectionPointSelect = <<>>
    /\ send = IdleSend
    /\ analysis = IdleAnalysis
    /\ analyzeBtn = AnalyzeButton
    /\ asks = [i \in 1..MaxAsks |-> "idle"]

\* the request panel before a request was typed or sent
PanelEmpty ==
    /\ requestEditor = <<>>
    /\ responseEditor = EmptyEditor
    /\ lastSentRequest = NullRequest
    /\ history = <<>>

\* the variables of the request handler before a request
HandlerIdle ==
    /\ requestBody = NoRequest
    /\ firstPass = NoFirstPass
    /\ reply = NoContent
    /\ pc = "ask"
    /\ cleanedText = <<>>
    /\ jsonString = <<>>
    /\ parseError = NoError
    /\ workingString = <<>>
    /\ lastError = NoError
    /\ strategy = "none"
    /\ parsedResponse = JUndefined
    /\ warning = NoWarning
    /\ res = NoResponse
    /\ outcome = "none"
    /\ threw = FALSE

Init ==
    /\ engine \in Engines
    /\ prompt \in Prompts
    /\ context \in Contexts
    /\ HandlerIdle
    /\ PageLoaded
    /\ PanelEmpty

\* the variables of the request and of the page
RequestUnchanged == UNCHANGED <<prompt, context, requestBody, firstPass>>

\* what handleAskAI and its handlers neither read nor write
EditorsUnchanged ==
    UNCHANGED <<requestEditor, responseEditor, lastSentRequest, send, analysis, analyzeBtn, asks>>

\* what only the handlers of an outcome write
StoreUnchanged ==
    /\ UNCHANGED <<stateInjectionPoints, history, payloadSelect, injectionPointSelect>>
    /\ EditorsUnchanged

PageUnchanged ==
    /\ UNCHANGED <<chat, statePayloads, payloadOptions>>
    /\ StoreUnchanged

HandlerUnchanged ==
    UNCHANGED <<engine, reply, cleanedText, jsonString, parseError, workingString, lastError,
                strategy, parsedResponse, warning, res, outcome, threw>>

\* script.js lines 93-117: the user's message and the loading message are
\* added, and the request is sent
Ask ==
    /\ pc = "ask"
    /\ chat' = chat \o <<"user", "thinking">>
    /\ pc' = "select"
    /\ UNCHANGED <<statePayloads, payloadOptions>>
    /\ StoreUnchanged
    /\ RequestUnchanged
    /\ HandlerUnchanged

\* server.js lines 529-560: the mode is chosen and the request body built
SelectMode ==
    /\ pc = "select"
    /\ requestBody' = RequestBody(prompt, context)
    /\ pc' = "call"
    /\ UNCHANGED <<prompt, context, firstPass>>
    /\ PageUnchanged
    /\ HandlerUnchanged

\* server.js lines 575-585: axios.post sends the request body.  The handler
\* reads prompt, context, systemPrompt and temperature no more after the call
\* (lines 587-668), and the model forgets them with the body that was sent.
CallModel ==
    /\ pc = "call"
    /\ prompt' = <<>>
    /\ context' = NoContext
    /\ requestBody' = NoRequest
    /\ pc' = "await"
    /\ UNCHANGED firstPass
    /\ PageUnchanged
    /\ HandlerUnchanged

\* server.js line 587: the endpoint's reply
ModelReplies ==
    /\ pc = "await"
    /\ reply' \in {StringReply(t) : t \in Replies} \cup {NoContent}
    /\ pc' = "extract"
    /\ UNCHANGED <<engine, cleanedText, jsonString, parseError, workingString,
                   lastError, strategy, parsedResponse, warning, res, outcome, threw>>
    /\ RequestUnchanged
    /\ PageUnchanged

\* server.js lines 587-593.  aiMessage.length of a reply that is no string
\* raises a TypeError, which the handler's catch answers.
Extract ==
    /\ pc = "extract"
    /\ IF reply.isString
       THEN /\ cleanedText' = Sanitize(reply.text)
            /\ jsonString' = extractAndCleanJSON(reply.text)
            /\ pc' = "parse"
       ELSE /\ pc' = "catch"
            /\ UNCHANGED <<cleanedText, jsonString>>
    /\ UNCHANGED <<engine, reply, parseError, workingString, lastError, strategy,
                   parsedResponse, warning, res, outcome, threw>>
    /\ RequestUnchanged
    /\ PageUnchanged

\* the handler without the direct parse of server.js line 601: every candidate
\* is handed to attemptJSONRepair
DirectParseSkipped ==
    /\ pc = "parse"
    /\ pc' = "cleanup"
    /\ UNCHANGED <<engine, reply, cleanedText, jsonString, parseError, workingString,
                   lastError, strategy, parsedResponse, warning, res, outcome, threw>>
    /\ RequestUnchanged
    /\ PageUnchanged

\* server.js lines 599-617: the direct parse; its failure calls attemptJSONRepair
DirectParse ==
    /\ pc = "parse"
    /\ \E r \in {JSONParse(jsonString)} :
          IF r.ok
          THEN /\ parsedResponse' = r.val
               /\ strategy' = "direct"
               /\ pc' = "respond"
               /\ UNCHANGED <<parseError, lastError>>
          ELSE /\ \E message \in {ErrorMessage(engine, r)} :
                     parseError' = message /\ lastError' = message
               /\ pc' = "cleanup"
               /\ UNCHANGED <<parsedResponse, strategy>>
    /\ UNCHANGED <<engine, reply, cleanedText, jsonString, workingString, warning, res, outcome, threw>>
    /\ RequestUnchanged
    /\ PageUnchanged

\* a strategy whose JSON.parse is outside a try: the SyntaxError of a failed
\* parse leaves attemptJSONRepair and reaches the handler's catch
TakeStepUncaught(step, name, next) ==
    /\ IF step.success
       THEN /\ parsedResponse' = step.data
            /\ warning' = step.warning
            /\ strategy' = name
            /\ pc' = "respond"
       ELSE /\ pc' = IF step.tried THEN "catch" ELSE next
            /\ UNCHANGED <<parsedResponse, warning, strategy>>
    /\ lastError' = IF step.tried /\ ~step.err.ok
                    THEN ErrorMessage(engine, step.err) ELSE lastError

\* what a strategy's result does to the handler: return it on success, go on
\* to the next strategy on failure
TakeStep(step, name, next) ==
    /\ IF step.success
       THEN /\ parsedResponse' = step.data
            /\ warning' = step.warning
            /\ strategy' = name
            /\ pc' = "respond"
       ELSE /\ pc' = next
            /\ UNCHANGED <<parsedResponse, warning, strategy>>
    /\ lastError' = IF step.tried /\ ~step.err.ok
                    THEN ErrorMessage(engine, step.err) ELSE lastError

\* server.js lines 226-269: both cleanups, then a parse
RepairCleanup ==
    /\ pc = "cleanup"
    /\ \E w \in {CleanedWorkingString(jsonString, parseError)} :
          /\ workingString' = w
          /\ \E step \in {CleanupStep(jsonString, w, parseError)} :
                TakeStep(step, "cleanup", "truncation")
    /\ UNCHANGED <<engine, reply, cleanedText, jsonString, parseError, res, outcome, threw>>
    /\ RequestUnchanged
    /\ PageUnchanged

\* attemptJSONRepair without Strategy 1: the text goes from the cleanup
\* straight to the extraction
RepairTruncationSkipped ==
    /\ pc = "truncation"
    /\ pc' = "extraction"
    /\ UNCHANGED <<engine, reply, cleanedText, jsonString, parseError, workingString, lastError,
                   strategy, parsedResponse, warning, res, outcome, threw>>
    /\ RequestUnchanged
    /\ PageUnchanged

\* server.js lines 271-297
RepairTruncation ==
    /\ pc = "truncation"
    /\ \E step \in {TruncationStep(workingString)} :
          TakeStep(step, "truncation", "extraction")
    /\ UNCHANGED <<engine, reply, cleanedText, jsonString, parseError, workingString, res, outcome, threw>>
    /\ RequestUnchanged
    /\ PageUnchanged

\* server.js lines 299-330
RepairExtraction ==
    /\ pc = "extraction"
    /\ \E step \in {ExtractionStep(workingString)} :
          TakeStep(step, "extraction", "fallback")
    /\ UNCHANGED <<engine, reply, cleanedText, jsonString, parseError, workingString, res, outcome, threw>>
    /\ RequestUnchanged
    /\ PageUnchanged

Hint == "The AI response could not be parsed as JSON. The full response is shown above."

\* the fallback built from the sanitized text in place of aiMessage
FallbackDataSanitized(aiMessage, error) ==
    JObj(<<KeyMessage, KeyParseError, KeyHint>>,
         <<JStr(Sanitize(aiMessage)), JStr(MessageChars(error)), JStr(<<Hint>>)>>)

\* server.js lines 624-628
FallbackData(aiMessage, error) ==
    JObj(<<KeyMessage, KeyParseError, KeyHint>>,
         <<JStr(aiMessage), JStr(MessageChars(error)), JStr(<<Hint>>)>>)

\* server.js lines 621-629: every repair failed
Fallback ==
    /\ pc = "fallback"
    /\ parsedResponse' = FallbackData(reply.text, parseError)
    /\ strategy' = "fallback"
    /\ pc' = "respond"
    /\ UNCHANGED <<engine, reply, cleanedText, jsonString, parseError, workingString, lastError,
                   warning, res, outcome, threw>>
    /\ RequestUnchanged
    /\ PageUnchanged

\* the response with the sanitized text as its rawMessage
RespondCleaned ==
    /\ pc = "respond"
    /\ res' = [status |-> 200, success |-> TRUE, data |-> parsedResponse,
               rawMessage |-> cleanedText, warning |-> warning]
    /\ pc' = "client"
    /\ UNCHANGED <<engine, reply, cleanedText, jsonString, parseError, workingString, lastError,
                   strategy, parsedResponse, warning, outcome, threw>>
    /\ RequestUnchanged
    /\ PageUnchanged

\* server.js lines 632-643
Respond ==
    /\ pc = "respond"
    /\ res' = [status |-> 200, success |-> TRUE, data |-> parsedResponse,
               rawMessage |-> reply.text, warning |-> warning]
    /\ pc' = "client"
    /\ UNCHANGED <<engine, reply, cleanedText, jsonString, parseError, workingString, lastError,
                   strategy, parsedResponse, warning, outcome, threw>>
    /\ RequestUnchanged
    /\ PageUnchanged

\* server.js lines 645-667: the handler's catch answers with an HTTP error
Catch ==
    /\ pc = "catch"
    /\ res' = [NoResponse EXCEPT !.status = 500]
    /\ pc' = "client"
    /\ UNCHANGED <<engine, reply, cleanedText, jsonString, parseError, workingString, lastError,
                   strategy, parsedResponse, warning, outcome, threw>>
    /\ RequestUnchanged
    /\ PageUnchanged

ServerUnchanged ==
    /\ UNCHANGED <<engine, reply, cleanedText, jsonString, parseError, workingString, lastError,
                   strategy, parsedResponse, warning, res>>
    /\ RequestUnchanged

\* script.js lines 127-135: the loading message is removed, and the warning
\* of the answer, if it has one, is shown
Received == Upto(chat, Len(chat) - 1) \o (IF res.warning # NoWarning THEN <<"warning">> ELSE <<>>)

\* script.js lines 194-199: the catch removes the last message if it is the
\* loading message, and adds the error message
CatchError(messages) ==
    Append(IF messages # <<>> /\ messages[Len(messages)] = "thinking"
           THEN Upto(messages, Len(messages) - 1) ELSE messages,
           "error")

\* script.js lines 119-122 and 194-200: !response.ok
ClientHttpError ==
    /\ pc = "client"
    /\ res.status # 200
    /\ outcome' = "HttpError"
    /\ chat' = CatchError(chat)
    /\ pc' = "done"
    /\ UNCHANGED <<threw, statePayloads, payloadOptions>>
    /\ StoreUnchanged
    /\ ServerUnchanged

\* script.js line 138: reading data.data.parseError of null raises a TypeError
ClientReadsNull ==
    /\ pc = "client"
    /\ res.status = 200
    /\ res.data.t = "null"
    /\ threw' = TRUE
    /\ chat' = CatchError(Received)
    /\ pc' = "done"
    /\ UNCHANGED <<outcome, statePayloads, payloadOptions>>
    /\ StoreUnchanged
    /\ ServerUnchanged

\* script.js lines 138-148: the answer is taken for a parse failure
ClientParseFailure ==
    /\ pc = "client"
    /\ res.status = 200
    /\ res.data.t # "null"
    /\ ReportsParseError(res.data)
    /\ outcome' = "ParseFailure"
    /\ chat' = Received \o <<"parseFailure">>
                  \o (IF res.rawMessage # <<>> THEN <<"rawLogged">> ELSE <<>>)
    /\ pc' = "done"
    /\ UNCHANGED <<threw, statePayloads, payloadOptions>>
    /\ StoreUnchanged
    /\ ServerUnchanged

\* script.js lines 150-192: the conditions under which the branch for the
\* variant runs
Dispatches(variant) ==
    /\ pc = "client"
    /\ res.status = 200
    /\ res.data.t # "null"
    /\ ~ReportsParseError(res.data)
    /\ Classify(res.data) = variant

\* the handler of the branch runs on data.data: state.payloads is set by
\* script.js lines 703 and 761; handleCombinedResponse reaches the options of
\* payloadSelect only if updateInjectionPointSelector did not raise.
\* state.injectionPoints is set by lines 668 and 703, before
\* updateInjectionPointSelector, whose line 734 leaves injectionPointSelect at
\* its first option (Auto); lines 710 and 764 leave payloadSelect at its
\* first option (none).  displayAnalysisResult writes the verdict to the
\* history in its last line (865), unless it raised before.
Handles(variant) ==
    /\ outcome' = variant
    /\ threw' = HandlerThrows(variant, res.data)
    /\ chat' = Received \o BranchMessages(variant, res.data, res.rawMessage)
    /\ statePayloads' = IF variant \in {"CombinedReport", "PayloadReport"}
                        THEN Prop(res.data, KeyPayloads) ELSE statePayloads
    /\ payloadOptions' =
          IF variant = "PayloadReport"
               \/ (variant = "CombinedReport" /\ ~PointsThrow(Prop(res.data, KeyInjectionPoints)))
          THEN PayloadOptions(Prop(res.data, KeyPayloads))
          ELSE payloadOptions
    /\ payloadSelect' =
          IF variant = "PayloadReport"
               \/ (variant = "CombinedReport" /\ ~PointsThrow(Prop(res.data, KeyInjectionPoints)))
          THEN <<>>
          ELSE payloadSelect
    /\ stateInjectionPoints' = IF variant \in {"CombinedReport", "InjectionReport"}
                               THEN Prop(res.data, KeyInjectionPoints) ELSE stateInjectionPoints
    /\ injectionPointSelect' = IF variant \in {"CombinedReport", "InjectionReport"}
                               THEN <<>> ELSE injectionPointSelect
    /\ history' = IF variant = "AnalysisVerdict" /\ ~AnalysisThrows(res.data)
                  THEN updateLatestHistoryVerdict(history, Prop(res.data, KeyVerdict),
                                                  Prop(res.data, KeyConfidence))
                  ELSE history
    /\ pc' = "done"
    /\ EditorsUnchanged
    /\ ServerUnchanged

\* script.js lines 151-153
HandleCombined ==
    /\ Dispatches("CombinedReport")
    /\ Handles("CombinedReport")

\* script.js lines 154-155
HandleInjectionPoints ==
    /\ Dispatches("InjectionReport")
    /\ Handles("InjectionReport")

\* script.js lines 156-157
HandlePayloads ==
    /\ Dispatches("PayloadReport")
    /\ Handles("PayloadReport")

\* script.js lines 158-159
HandleAnalysis ==
    /\ Dispatches("AnalysisVerdict")
    /\ Handles("AnalysisVerdict")

\* script.js lines 160-175
ShowGeneric ==
    /\ Dispatches("Generic")
    /\ Handles("Generic")

\* script.js lines 176-191
ShowFreeText ==
    /\ Dispatches("FreeText")
    /\ Handles("FreeText")

Next ==
    \/ Ask
    \/ SelectMode
    \/ CallModel
    \/ ModelReplies
    \/ Extract
    \/ DirectParse
    \/ RepairCleanup
    \/ RepairTruncation
    \/ RepairExtraction
    \/ Fallback
    \/ Respond
    \/ Catch
    \/ ClientHttpError
    \/ ClientReadsNull
    \/ ClientParseFailure
    \/ HandleCombined
    \/ HandleInjectionPoints
    \/ HandlePayloads
    \/ HandleAnalysis
    \/ ShowGeneric
    \/ ShowFreeText

Spec == Init /\ [][Next]_vars

\* script.js lines 119-202: what handleAskAI does once its fetch has settled
Continuation ==
    \/ ClientHttpError
    \/ ClientReadsNull
    \/ ClientParseFailure
    \/ HandleCombined
    \/ HandleInjectionPoints
    \/ HandlePayloads
    \/ HandleAnalysis
    \/ ShowGeneric
    \/ ShowFreeText

\* Once the fetch of script.js line 108 has settled, the event loop runs the
\* continuation of handleAskAI, which is synchronous code up to its return.
SpecLive == Spec /\ WF_vars(Continuation)

----------------------------------------------------------------------------
(* The chain run a second time, on the text of the data it returned *)

\* QuoteJSONString of JSON.stringify on one character
QuoteChar(c) ==
    CASE c = DQ -> <<BS, DQ>> [] c = BS -> <<BS, BS>>
      [] c = NL -> <<BS, "n">> [] c = TAB -> <<BS, "t">> [] c = "\r" -> <<BS, "r">>
      [] c = "BACKSPACE" -> <<BS, "b">> [] c = "FORMFEED" -> <<BS, "f">>
      [] OTHER -> <<c>>

Quote(chars) == <<DQ>> \o Flatten([j \in 1..Len(chars) |-> QuoteChar(chars[j])]) \o <<DQ>>

\* JSON.stringify(v) without indentation.  A number is written as its lexeme:
\* the numbers of the replies are in the form JSON.stringify writes them in.
RECURSIVE Stringify(_)
Stringify(v) ==
    CASE v.t = "null" -> <<"n", "u", "l", "l">>
      [] v.t = "true" -> <<"t", "r", "u", "e">>
      [] v.t = "false" -> <<"f", "a", "l", "s", "e">>
      [] v.t = "num" -> v.s
      [] v.t = "str" -> Quote(v.s)
      [] v.t = "arr" ->
            <<"[">> \o Join([j \in 1..Len(v.a) |-> Stringify(v.a[j])], <<",">>) \o <<"]">>
      [] OTHER ->
            <<"{">> \o Join([j \in 1..Len(v.k) |-> Quote(v.k[j]) \o <<":">> \o Stringify(v.a[j])],
                            <<",">>) \o <<"}">>

\* the data of a parsed and classified answer is written as JSON and comes
\* back as the reply of a new request
Reserialize ==
    /\ pc = "done"
    /\ ~firstPass.done
    /\ res.status = 200
    /\ strategy \in {"direct", "cleanup", "truncation", "extraction"}
    /\ outcome # "none"
    /\ firstPass' = [done |-> TRUE, outcome |-> outcome]
    /\ reply' = StringReply(Stringify(res.data))
    /\ pc' = "extract"
    /\ chat' = <<"user", "thinking">>
    /\ statePayloads' = JUndefined
    /\ payloadOptions' = <<>>
    /\ cleanedText' = <<>>
    /\ jsonString' = <<>>
    /\ parseError' = NoError
    /\ workingString' = <<>>
    /\ lastError' = NoError
    /\ strategy' = "none"
    /\ parsedResponse' = JUndefined
    /\ warning' = NoWarning
    /\ res' = NoResponse
    /\ outcome' = "none"
    /\ threw' = FALSE
    /\ UNCHANGED <<engine, prompt, context, requestBody>>
    /\ StoreUnchanged

NextRerun == Next \/ Reserialize

SpecRerun == Init /\ [][NextRerun]_vars

----------------------------------------------------------------------------
(* The request panel: parseHttpRequest, applyPayload and reconstructHttpRequest
   (script.js), and the proxy /api/send-request (server.js).  An object of
   headers is the sequence of its [name, value] entries in insertion order. *)

\* String.prototype.toUpperCase on one character
UpperChar(c) ==
    CASE c = "a" -> "A" [] c = "b" -> "B" [] c = "c" -> "C" [] c = "d" -> "D"
      [] c = "e" -> "E" [] c = "f" -> "F" [] c = "g" -> "G" [] c = "h" -> "H"
      [] c = "i" -> "I" [] c = "j" -> "J" [] c = "k" -> "K" [] c = "l" -> "L"
      [] c = "m" -> "M" [] c = "n" -> "N" [] c = "o" -> "O" [] c = "p" -> "P"
      [] c = "q" -> "Q" [] c = "r" -> "R" [] c = "s" -> "S" [] c = "t" -> "T"
      [] c = "u" -> "U" [] c = "v" -> "V" [] c = "w" -> "W" [] c = "x" -> "X"
      [] c = "y" -> "Y" [] c = "z" -> "Z"
      [] OTHER -> c

\* s.split(c) for the one character c
RECURSIVE Split(_, _)
Split(s, c) ==
    LET Cut(at) ==
            IF at = 0 THEN <<s>> ELSE <<Upto(s, at - 1)>> \o Split(From(s, at + 1), c)
    IN  Cut(IndexOfCharFrom(s, c, 1))

\* headers[name] = value
HeaderPut(headers, name, value) ==
    LET Put(at) ==
            IF at = 0 THEN Append(headers, [name |-> name, value |-> value])
            ELSE [headers EXCEPT ![at].value = value]
    IN  Put(FirstOr({j \in 1..Len(headers) : headers[j].name = name}, 0))

\* headers[name] || ''
HeaderValue(headers, name) ==
    LET At(j) == IF j = 0 THEN <<>> ELSE headers[j].value
    IN  At(FirstOr({j \in 1..Len(headers) : headers[j].name = name}, 0))

\* script.js lines 357-371: the loop over the header lines from lines[i] on;
\* i is left at the blank line, or after the last line
RECURSIVE ParseHeaders(_, _, _, _)
ParseHeaders(lines, i, headers, host) ==
    IF i > Len(lines) \/ Trim(lines[i]) = <<>>
    THEN [headers |-> headers, host |-> host, i |-> i]
    ELSE LET Line(line, colonIndex) ==
                 IF colonIndex > 1
                 THEN ParseHeaders(lines, i + 1,
                                   HeaderPut(headers, Trim(Upto(line, colonIndex - 1)),
                                             Trim(From(line, colonIndex + 1))),
                                   IF [j \in 1..Len(Trim(Upto(line, colonIndex - 1))) |->
                                          LowerChar(Trim(Upto(line, colonIndex - 1))[j])] = <<"h", "o", "s", "t">>
                                   THEN Trim(From(line, colonIndex + 1)) ELSE host)
                 ELSE ParseHeaders(lines, i + 1, headers, host)
         IN  Line(Trim(lines[i]), IndexOfCharFrom(Trim(lines[i]), ":", 1))

\* script.js lines 380-393
ProtocolPrefix(headers, host) ==
    IF \/ Includes(host, <<"l", "o", "c", "a", "l", "h", "o", "s", "t">>) \/ Includes(host, <<"1", "2", "7", ".", "0", ".", "0", ".", "1">>)
       \/ StartsWithAt(HeaderValue(headers, <<"R", "e", "f", "e", "r", "e", "r">>), 1, <<"h", "t", "t", "p", ":", "/", "/">>)
       \/ StartsWithAt(HeaderValue(headers, <<"O", "r", "i", "g", "i", "n">>), 1, <<"h", "t", "t", "p", ":", "/", "/">>)
    THEN <<"h", "t", "t", "p">> ELSE <<"h", "t", "t", "p", "s">>

\* script.js lines 341-403.  ok is FALSE where line 349 throws: the request
\* line has no method or no path.
parseHttpRequest(rawRequest) ==
    LET Build(lines, words) ==
            IF words[1] = <<>> \/ Len(words) < 2 \/ words[2] = <<>>
            THEN [ok |-> FALSE, method |-> <<>>, url |-> <<>>, headers |-> <<>>, body |-> <<>>]
            ELSE LET Rest(h) ==
                         [ok |-> TRUE,
                          method |-> [j \in 1..Len(words[1]) |-> UpperChar(words[1][j])],
                          url |-> ProtocolPrefix(h.headers, h.host) \o <<":", "/", "/">> \o h.host \o words[2],
                          headers |-> h.headers,
                          body |-> IF h.i <= Len(lines)
                                   THEN Trim(Join(SubSeq(lines, h.i + 1, Len(lines)), <<NL>>))
                                   ELSE <<>>]
                 IN  Rest(ParseHeaders(lines, 2, <<>>, <<>>))
        Lines(lines) == Build(lines, Split(Trim(lines[1]), " "))
    IN  Lines(Split(rawRequest, NL))

\* the forbidden host code points of the URL parser among the characters of
\* the model's requests and payloads
ForbiddenHostChars == {" ", "<", ">", "#", "?", "@", "[", "]", "^", "|", "%", BS, NL}

\* new URL(url) raises a TypeError (script.js line 412): the host, the text
\* between :// and the next /, is empty or holds a forbidden code point
URLThrows(url) ==
    LET Host(start, end) == SubSeq(url, start, IF end = 0 THEN Len(url) ELSE end - 1)
        Bad(host) == host = <<>> \/ \E j \in 1..Len(host) : host[j] \in ForbiddenHostChars
        After(start) == Bad(Host(start, IndexOfCharFrom(url, "/", start)))
    IN  After(IndexOf(url, <<":", "/", "/">>) + Len(<<":", "/", "/">>))

\* new URL(url).pathname + new URL(url).search (script.js lines 412-413) of a
\* URL whose host is not empty and whose path and query hold no character the
\* URL parser rewrites: the text from the first / after the host on
PathAndSearch(url) ==
    LET After(scheme) == From(url, IndexOfCharFrom(url, "/", scheme + Len(<<":", "/", "/">>)))
    IN  After(IndexOf(url, <<":", "/", "/">>))

\* script.js lines 408-432
reconstructHttpRequest(parsedRequest) ==
    parsedRequest.method \o <<" ">> \o PathAndSearch(parsedRequest.url) \o <<" ", "H", "T", "T", "P", "/", "1", ".", "1">> \o <<NL>>
      \o Flatten([j \in 1..Len(parsedRequest.headers) |->
                     parsedRequest.headers[j].name \o <<":", " ">>
                       \o parsedRequest.headers[j].value \o <<NL>>])
      \o <<NL>> \o parsedRequest.body

INJECT == <<"[", "I", "N", "J", "E", "C", "T", "]">>

\* GetSubstitution of String.prototype.replace for a pattern without capture
\* groups: $$ is a dollar sign, $& the matched text, $BACKTICK the text before
\* the match and $' the text after it; every other character, a $ before a
\* digit among them, stands for itself
RECURSIVE GetSubstitution(_, _, _, _)
GetSubstitution(matched, before, after, replacement) ==
    IF replacement = <<>> THEN <<>>
    ELSE IF replacement[1] = "$" /\ Len(replacement) >= 2
              /\ replacement[2] \in {"$", "&", BT, AP}
    THEN (CASE replacement[2] = "$" -> <<"$">>
            [] replacement[2] = "&" -> matched
            [] replacement[2] = BT -> before
            [] OTHER -> after)
           \o GetSubstitution(matched, before, after, From(replacement, 3))
    ELSE <<replacement[1]>> \o GetSubstitution(matched, before, after, From(replacement, 2))

\* the text from s[i] on with every [INJECT] replaced by the payload as it is
RECURSIVE ReplaceVerbatimFrom(_, _, _)
ReplaceVerbatimFrom(s, i, payload) ==
    LET At(m) ==
            IF m = 0 THEN From(s, i)
            ELSE SubSeq(s, i, m - 1) \o payload \o ReplaceVerbatimFrom(s, m + Len(INJECT), payload)
    IN  At(IndexOfFrom(s, INJECT, i))

\* body.replace(/\[INJECT\]/g, payload) from s[i] on (script.js line 509): the
\* payload is a replacement pattern
RECURSIVE ReplaceFrom(_, _, _)
ReplaceFrom(s, i, payload) ==
    LET At(m) ==
            IF m = 0 THEN From(s, i)
            ELSE SubSeq(s, i, m - 1)
                   \o GetSubstitution(INJECT, Upto(s, m - 1), From(s, m + Len(INJECT)), payload)
                   \o ReplaceFrom(s, m + Len(INJECT), payload)
    IN  At(IndexOfFrom(s, INJECT, i))

\* the characters the application/x-www-form-urlencoded serializer leaves as
\* they are
FormSafe == Digits \cup {"*", "-", ".", "_"} \cup {"a", "b", "c", "d", "e", "f", "g", "h", "i", "j", "k", "l", "m", "n", "o", "p", "q", "r", "s", "t", "u", "v", "w", "x", "y", "z", "A", "B", "C", "D", "E", "F", "G", "H", "I", "J", "K", "L", "M", "N", "O", "P", "Q", "R", "S", "T", "U", "V", "W", "X", "Y", "Z"}

\* the percent codes of the other characters of the model's requests and
\* payloads
PercentCodes ==
    << [c |-> AP, code |-> <<"2", "7">>],
       [c |-> DQ, code |-> <<"2", "2">>],
       [c |-> "<", code |-> <<"3", "C">>],
       [c |-> ">", code |-> <<"3", "E">>],
       [c |-> "$", code |-> <<"2", "4">>],
       [c |-> "&", code |-> <<"2", "6">>],
       [c |-> "=", code |-> <<"3", "D">>],
       [c |-> "/", code |-> <<"2", "F">>],
       [c |-> "(", code |-> <<"2", "8">>],
       [c |-> ")", code |-> <<"2", "9">>],
       [c |-> "[", code |-> <<"5", "B">>],
       [c |-> "]", code |-> <<"5", "D">>],
       [c |-> "{", code |-> <<"7", "B">>],
       [c |-> "}", code |-> <<"7", "D">>],
       [c |-> ":", code |-> <<"3", "A">>],
       [c |-> ",", code |-> <<"2", "C">>],
       [c |-> "?", code |-> <<"3", "F">>],
       [c |-> "%", code |-> <<"2", "5">>],
       [c |-> "+", code |-> <<"2", "B">>],
       [c |-> BT, code |-> <<"6", "0">>],
       [c |-> BS, code |-> <<"5", "C">>],
       [c |-> NL, code |-> <<"0", "A">>],
       [c |-> ";", code |-> <<"3", "B">>],
       [c |-> "#", code |-> <<"2", "3">>] >>

\* the serializer on one character: a space is written as +
FormEncodeChar(c) ==
    IF c \in FormSafe THEN <<c>>
    ELSE IF c = " " THEN <<"+">>
    ELSE <<"%">> \o PercentCodes[CHOOSE j \in 1..Len(PercentCodes) : PercentCodes[j].c = c].code

FormEncode(s) == Flatten([j \in 1..Len(s) |-> FormEncodeChar(s[j])])

\* the parser's decoding of a name or a value: + is a space, a percent code
\* of the table is its character
RECURSIVE FormDecode(_)
FormDecode(s) ==
    IF s = <<>> THEN <<>>
    ELSE IF s[1] = "+" THEN <<" ">> \o FormDecode(From(s, 2))
    ELSE IF s[1] = "%" /\ Len(s) >= 3
              /\ \E j \in 1..Len(PercentCodes) : PercentCodes[j].code = <<s[2], s[3]>>
    THEN <<PercentCodes[CHOOSE j \in 1..Len(PercentCodes) : PercentCodes[j].code = <<s[2], s[3]>>].c>>
           \o FormDecode(From(s, 4))
    ELSE <<s[1]>> \o FormDecode(From(s, 2))

\* new URLSearchParams(s): the [name, value] pairs of the pieces between the
\* & that are not empty, each split at its first =
URLSearchParams(s) ==
    LET Pair(piece, eq) ==
            IF eq = 0 THEN [name |-> FormDecode(piece), value |-> <<>>]
            ELSE [name |-> FormDecode(Upto(piece, eq - 1)), value |-> FormDecode(From(piece, eq + 1))]
        NotEmpty(piece) == piece # <<>>
        Pairs(pieces) ==
            [j \in 1..Len(pieces) |-> Pair(pieces[j], IndexOfCharFrom(pieces[j], "=", 1))]
    IN  Pairs(SelectSeq(Split(IF s # <<>> /\ s[1] = "?" THEN From(s, 2) ELSE s, "&"), NotEmpty))

\* params.has(name)
ParamsHas(params, name) == \E j \in 1..Len(params) : params[j].name = name

\* params.set(name, value) of a name params has: the first pair of the name
\* takes the value, the others of the name are removed
ParamsSet(params, name, value) ==
    LET first == MinOf({j \in 1..Len(params) : params[j].name = name})
        Marked == [j \in 1..Len(params) |->
                      [name |-> params[j].name,
                       value |-> IF j = first THEN value ELSE params[j].value,
                       kept |-> params[j].name # name \/ j = first]]
        Kept(p) == p.kept
        Stay == SelectSeq(Marked, Kept)
    IN  [j \in 1..Len(Stay) |-> [name |-> Stay[j].name, value |-> Stay[j].value]]

\* params.toString()
ParamsToString(params) ==
    Join([j \in 1..Len(params) |->
             FormEncode(params[j].name) \o <<"=">> \o FormEncode(params[j].value)], <<"&">>)

\* headers['Content-Type'] || headers['content-type'] || '' includes the form
\* type (script.js lines 538-540 and 586-588)
IsFormEncoded(headers) ==
    Includes(IF HeaderValue(headers, <<"C", "o", "n", "t", "e", "n", "t", "-", "T", "y", "p", "e">>) # <<>>
             THEN HeaderValue(headers, <<"C", "o", "n", "t", "e", "n", "t", "-", "T", "y", "p", "e">>)
             ELSE HeaderValue(headers, <<"c", "o", "n", "t", "e", "n", "t", "-", "t", "y", "p", "e">>),
             <<"a", "p", "p", "l", "i", "c", "a", "t", "i", "o", "n", "/", "x", "-", "w", "w", "w", "-", "f", "o", "r", "m", "-", "u", "r", "l", "e", "n", "c", "o", "d", "e", "d">>)

\* script.js lines 565-632.  The names of the model's parameters are no own
\* property of an array or of a string (an index, length).
applyToSpecificParameter(parsedRequest, payload, paramName) ==
    LET url == parsedRequest.url
        headers == parsedRequest.headers
        body == parsedRequest.body
        Original == [url |-> url, headers |-> headers, body |-> body]
        InUrl ==
            IF ~Includes(url, <<"?">>) THEN Original
            ELSE LET Query(parts) ==
                         IF ParamsHas(URLSearchParams(parts[2]), paramName)
                         THEN [url |-> parts[1] \o <<"?">>
                                         \o ParamsToString(ParamsSet(URLSearchParams(parts[2]),
                                                                     paramName, payload)),
                               headers |-> headers, body |-> body]
                         ELSE Original
                 IN  Query(Split(url, "?"))
        InHeaders ==
            LET Key(at) ==
                    IF at = 0 THEN InUrl
                    ELSE [url |-> url, headers |-> [headers EXCEPT ![at].value = payload],
                          body |-> body]
            IN  Key(FirstOr({j \in 1..Len(headers) :
                                [n \in 1..Len(headers[j].name) |-> LowerChar(headers[j].name[n])]
                                  = [n \in 1..Len(paramName) |-> LowerChar(paramName[n])]}, 0))
        InForm ==
            IF IsFormEncoded(headers) /\ ParamsHas(URLSearchParams(body), paramName)
            THEN [url |-> url, headers |-> headers,
                  body |-> ParamsToString(ParamsSet(URLSearchParams(body), paramName, payload))]
            ELSE InHeaders
        InBody(r) ==
            IF ~r.ok \/ r.val.t = "null" THEN InForm
            ELSE IF HasKey(r.val, paramName)
            THEN [url |-> url, headers |-> headers,
                  body |-> Stringify(ObjPut(r.val, paramName, JStr(payload)))]
            ELSE InHeaders
    IN  IF body = <<>> THEN InHeaders ELSE InBody(JSONParse(body))

\* script.js lines 524-535: jsonBody[Object.keys(jsonBody)[0]] = payload on a
\* parsed body that is not null; a string has its indices as keys and takes no
\* assignment, a number or a boolean has no keys
FirstKeySet(jsonBody, payload) ==
    CASE jsonBody.t = "obj" /\ jsonBody.k # <<>> ->
            ObjPut(jsonBody, jsonBody.k[1], JStr(payload))
      [] jsonBody.t = "arr" /\ jsonBody.a # <<>> ->
            JArr([jsonBody.a EXCEPT ![1] = JStr(payload)])
      [] OTHER -> jsonBody

\* script.js lines 498-560
applyPayload(parsedRequest, payload, targetParameter) ==
    LET url == parsedRequest.url
        headers == parsedRequest.headers
        body == parsedRequest.body
        Original == [url |-> url, headers |-> headers, body |-> body]
        Form(params) ==
            IF IsFormEncoded(headers) /\ params # <<>> /\ params[1].name # <<>>
            THEN [url |-> url, headers |-> headers,
                  body |-> ParamsToString(ParamsSet(params, params[1].name, payload))]
            ELSE Original
        Auto(r) ==
            IF r.ok /\ r.val.t # "null"
            THEN [url |-> url, headers |-> headers,
                  body |-> Stringify(FirstKeySet(r.val, payload))]
            ELSE Form(URLSearchParams(body))
    IN  IF Includes(body, INJECT)
        THEN [url |-> url, headers |-> headers, body |-> ReplaceFrom(body, 1, payload)]
        ELSE IF targetParameter # <<>>
        THEN applyToSpecificParameter(parsedRequest, payload, targetParameter)
        ELSE IF body = <<>> THEN Original
        ELSE Auto(JSONParse(body))

\* server.js lines 97-99: a copy of the headers without the properties named
\* Content-Length and content-length
cleanHeaders(headers) ==
    LET Stays(h) == h.name \notin {<<"C", "o", "n", "t", "e", "n", "t", "-", "L", "e", "n", "g", "t", "h">>, <<"c", "o", "n", "t", "e", "n", "t", "-", "l", "e", "n", "g", "t", "h">>}
    IN  SelectSeq(headers, Stays)

\* the headers without every header whose name is Content-Length in whatever
\* letter case
cleanHeadersOfAnyCase(headers) ==
    LET Stays(h) == [n \in 1..Len(h.name) |-> LowerChar(h.name[n])] # <<"c", "o", "n", "t", "e", "n", "t", "-", "l", "e", "n", "g", "t", "h">>
    IN  SelectSeq(headers, Stays)

\* server.js lines 106-118: the request handed to axios
ProxyConfig(request) ==
    [method |-> [j \in 1..Len(request.method) |-> LowerChar(request.method[j])],
     url |-> request.url,
     headers |-> cleanHeaders(request.headers),
     hasData |-> request.body # <<>> /\ request.method \notin {<<"G", "E", "T">>, <<"H", "E", "A", "D">>},
     data |-> IF request.body # <<>> /\ request.method \notin {<<"G", "E", "T">>, <<"H", "E", "A", "D">>}
              THEN request.body ELSE <<>>]

----------------------------------------------------------------------------
(* The request panel as a state machine: handleSendRequest with the proxy,
   viewHistoryItem and handleAnalyzeResponse run on the page while the
   requests they wait for are under way. *)

\* the most entries of state.history
MaxHistory == 2

\* the requests typed into requestEditor: a JSON body, an empty JSON object,
\* a form body, a query string without a body, a body with the marker, and a
\* text that is no request
RawRequests ==
    {<<"P", "O", "S", "T", " ", "/", "a", " ", "H", "T", "T", "P", "/", "1", ".", "1", NL, "H", "o", "s", "t", ":", " ", "t", ".", "c", "o", NL, "C", "o", "n", "t", "e", "n", "t", "-", "T", "y", "p", "e", ":", " ", "a", "p", "p", "l", "i", "c", "a", "t", "i", "o", "n", "/", "j", "s", "o", "n", NL, "C", "o", "n", "t", "e", "n", "t", "-", "L", "e", "n", "g", "t", "h", ":", " ", "9", NL, NL, "{", DQ, "u", DQ, ":", DQ, "x", DQ, "}">>,
     <<"P", "O", "S", "T", " ", "/", "a", " ", "H", "T", "T", "P", "/", "1", ".", "1", NL, "H", "o", "s", "t", ":", " ", "t", ".", "c", "o", NL, NL, "{", "}">>,
     <<"P", "O", "S", "T", " ", "/", "a", " ", "H", "T", "T", "P", "/", "1", ".", "1", NL, "H", "o", "s", "t", ":", " ", "t", ".", "c", "o", NL, "c", "o", "n", "t", "e", "n", "t", "-", "t", "y", "p", "e", ":", " ", "a", "p", "p", "l", "i", "c", "a", "t", "i", "o", "n", "/", "x", "-", "w", "w", "w", "-", "f", "o", "r", "m", "-", "u", "r", "l", "e", "n", "c", "o", "d", "e", "d", NL, "C", "o", "n", "t", "e", "n", "t", "-", "l", "e", "n", "g", "t", "h", ":", " ", "7", NL, NL, "u", "=", "x", "&", "p", "=", "y">>,
     <<"G", "E", "T", " ", "/", "s", "?", "q", "=", "x", " ", "H", "T", "T", "P", "/", "1", ".", "1", NL, "H", "o", "s", "t", ":", " ", "t", ".", "c", "o">>,
     <<"P", "O", "S", "T", " ", "/", "a", " ", "H", "T", "T", "P", "/", "1", ".", "1", NL, "H", "o", "s", "t", ":", " ", "t", ".", "c", "o", NL, "C", "O", "N", "T", "E", "N", "T", "-", "L", "E", "N", "G", "T", "H", ":", " ", "2", "1", NL, NL, "u", "=", "[", "I", "N", "J", "E", "C", "T", "]", "&", "p", "=", "[", "I", "N", "J", "E", "C", "T", "]">>,
     <<"P", "I", "N", "G">>}

\* the values of payloadSelect: none (script.js line 710), or a payload
SelectablePayloads == {<<>>, <<AP, " ", "O", "R", " ", "1", "=", "1">>, <<"<", "$", "&", ">">>}

\* the values of injectionPointSelect: Auto (script.js line 734), or the name
\* of an injection point
SelectablePoints == {<<>>, <<"u">>, <<"q">>, <<"h", "o", "s", "t">>}

\* payload: selectedPayload || 'Original request' (script.js line 242)
OriginalRequest == <<"O", "r", "i", "g", "i", "n", "a", "l", " ", "r", "e", "q", "u", "e", "s", "t">>

\* script.js lines 216-228: the parsed request with the payload applied, if
\* one is selected
RequestToSend(parsed, selectedPayload, selectedInjectionPoint) ==
    LET Applied(result) ==
            [method |-> parsed.method, url |-> result.url, headers |-> result.headers,
             body |-> result.body]
    IN  IF selectedPayload # <<>>
        THEN Applied(applyPayload(parsed, selectedPayload, selectedInjectionPoint))
        ELSE [method |-> parsed.method, url |-> parsed.url, headers |-> parsed.headers,
              body |-> parsed.body]

\* script.js lines 204-236: the click on Send Request, up to the fetch of
\* sendHttpRequest
SendRequest ==
    /\ send.pc = "idle"
    /\ Len(history) < MaxHistory
    /\ Trim(requestEditor) # <<>>
    /\ \E parsed \in {parseHttpRequest(Trim(requestEditor))} :
          /\ parsed.ok
          /\ \E request \in {RequestToSend(parsed, payloadSelect, injectionPointSelect)} :
                /\ ~URLThrows(request.url)
                /\ lastSentRequest' = [isNull |-> FALSE, text |-> reconstructHttpRequest(request)]
                /\ send' = [pc |-> "proxy", parsedRequest |-> request,
                            payload |-> IF payloadSelect # <<>> THEN payloadSelect
                                        ELSE OriginalRequest,
                            config |-> NoConfig]
    /\ responseEditor' = [kind |-> "sending", status |-> 0]
    /\ UNCHANGED <<requestEditor, history, analysis, analyzeBtn, asks>>
    /\ UNCHANGED <<chat, statePayloads, payloadOptions, stateInjectionPoints, payloadSelect,
                   injectionPointSelect>>
    /\ RequestUnchanged
    /\ HandlerUnchanged
    /\ UNCHANGED pc

\* script.js lines 216, 231 and 253-256: parseHttpRequest throws, or
\* reconstructHttpRequest does on the URL, before state.lastSentRequest is
\* assigned; the catch writes the error into responseEditor
SendRequestInvalid ==
    /\ send.pc = "idle"
    /\ Trim(requestEditor) # <<>>
    /\ \E parsed \in {parseHttpRequest(Trim(requestEditor))} :
          \/ ~parsed.ok
          \/ \E request \in {RequestToSend(parsed, payloadSelect, injectionPointSelect)} :
                URLThrows(request.url)
    /\ responseEditor' = [kind |-> "error", status |-> 0]
    /\ UNCHANGED <<requestEditor, lastSentRequest, send, history, analysis, analyzeBtn, asks>>
    /\ UNCHANGED <<chat, statePayloads, payloadOptions, stateInjectionPoints, payloadSelect,
                   injectionPointSelect>>
    /\ RequestUnchanged
    /\ HandlerUnchanged
    /\ UNCHANGED pc

\* server.js lines 87-122: the proxy builds the request it hands to axios
ProxyForwards ==
    /\ send.pc = "proxy"
    /\ send' = [send EXCEPT !.pc = "target", !.config = ProxyConfig(send.parsedRequest)]
    /\ UNCHANGED <<requestEditor, responseEditor, lastSentRequest, history, analysis,
                   analyzeBtn, asks>>
    /\ UNCHANGED <<chat, statePayloads, payloadOptions, stateInjectionPoints, payloadSelect,
                   injectionPointSelect>>
    /\ RequestUnchanged
    /\ HandlerUnchanged
    /\ UNCHANGED pc

\* the statuses of the target's responses
TargetStatuses == {200, 500}

\* server.js lines 122-140 and script.js lines 236-251: the target answers,
\* the response is shown, and the entry of the request is added to the history
TargetResponds ==
    /\ send.pc = "target"
    /\ \E status \in TargetStatuses :
          /\ responseEditor' = [kind |-> "response", status |-> status]
          /\ history' = Append(history,
                               [request |-> lastSentRequest.text,
                                response |-> [kind |-> "response", status |-> status],
                                payload |-> send.payload,
                                verdict |-> NotAnalyzed])
    /\ send' = IdleSend
    /\ UNCHANGED <<requestEditor, lastSentRequest, analysis, analyzeBtn, asks>>
    /\ UNCHANGED <<chat, statePayloads, payloadOptions, stateInjectionPoints, payloadSelect,
                   injectionPointSelect>>
    /\ RequestUnchanged
    /\ HandlerUnchanged
    /\ UNCHANGED pc

\* server.js lines 142-176 and script.js lines 457-460 and 253-256: axios
\* raises, the proxy answers with an error status, and the catch of
\* handleSendRequest writes the error into responseEditor
TargetFails ==
    /\ send.pc = "target"
    /\ responseEditor' = [kind |-> "error", status |-> 0]
    /\ send' = IdleSend
    /\ UNCHANGED <<requestEditor, lastSentRequest, history, analysis, analyzeBtn, asks>>
    /\ UNCHANGED <<chat, statePayloads, payloadOptions, stateInjectionPoints, payloadSelect,
                   injectionPointSelect>>
    /\ RequestUnchanged
    /\ HandlerUnchanged
    /\ UNCHANGED pc

\* script.js lines 910-926: the View button of an entry
viewHistoryItem ==
    /\ \E index \in 1..Len(history) :
          /\ requestEditor' = history[index].request
          /\ responseEditor' = history[index].response
    /\ UNCHANGED <<lastSentRequest, send, history, analysis, analyzeBtn, asks>>
    /\ UNCHANGED <<chat, statePayloads, payloadOptions, stateInjectionPoints, payloadSelect,
                   injectionPointSelect>>
    /\ RequestUnchanged
    /\ HandlerUnchanged
    /\ UNCHANGED pc

\* a button whose click has started an analysis (script.js lines 274-275)
AnalyzingButton == [disabled |-> TRUE, textContent |-> "Analyzing..."]

\* script.js lines 259-288: the click on Analyze Response (a disabled button
\* takes no click), up to the fetch; the context holds state.lastSentRequest
\* and the text of responseEditor
AnalyzeResponse ==
    /\ ~analyzeBtn.disabled
    /\ analysis.pc = "idle"
    /\ responseEditor.kind # "empty"
    /\ ~lastSentRequest.isNull
    /\ analyzeBtn' = AnalyzingButton
    /\ analysis' = [pc |-> "await", request |-> lastSentRequest.text,
                    response |-> responseEditor]
    /\ UNCHANGED <<requestEditor, responseEditor, lastSentRequest, send, history, asks>>
    /\ UNCHANGED <<chat, statePayloads, payloadOptions, stateInjectionPoints, payloadSelect,
                   injectionPointSelect>>
    /\ RequestUnchanged
    /\ HandlerUnchanged
    /\ UNCHANGED pc

\* what the fetch of script.js line 279 settles with: a response that is ok,
\* with its data.data; a response that is not ok; a rejection
AnalysisAnswers ==
    {[settled |-> "ok", data |-> d] :
        d \in {JObj(<<KeyVerdict, KeyConfidence, KeyEvidence>>,
                    <<JStr(<<"s", "u", "c", "c", "e", "s", "s">>), JNum(<<"9", "0">>), JArr(<<JStr(<<"e">>)>>)>>),
               JObj(<<KeyVerdict>>, <<JStr(<<"s", "u", "c", "c", "e", "s", "s">>)>>),
               JObj(<<KeyMessage, KeyParseError>>, <<JStr(<<"m">>), JStr(<<"p">>)>>),
               JObj(<<KeyMessage>>, <<JStr(<<"m">>)>>),
               JObj(<<KeyMessage>>, <<JNum(<<"7">>)>>),
               JObj(<<>>, <<>>),
               JNull}}
      \cup {[settled |-> "notOk", data |-> JNull], [settled |-> "rejected", data |-> JNull]}

\* script.js lines 290-329: the path handleAnalyzeResponse takes on an answer
AnalysisPath(answer) ==
    IF answer.settled # "ok" THEN answer.settled
    ELSE IF answer.data.t = "null" THEN "exception"
    ELSE IF ReportsParseError(answer.data) THEN "parseError"
    ELSE IF Truthy(Prop(answer.data, KeyVerdict))
    THEN (IF AnalysisThrows(answer.data) THEN "exception" ELSE "verdict")
    ELSE IF Truthy(Prop(answer.data, KeyMessage))
    THEN (IF Prop(answer.data, KeyMessage).t \notin {"str", "arr"} THEN "exception" ELSE "message")
    ELSE "format"

\* try and catch without the finally: the statements of script.js lines
\* 331-332 at the end of the try block, where a return or an exception skips
\* them
ButtonAfterTry(path) == IF path \in {"verdict", "message", "format"} THEN AnalyzeButton ELSE AnalyzingButton

\* script.js lines 330-333: the finally block runs on every path
ButtonAfter(path) == AnalyzeButton

\* script.js lines 290-333: the fetch settles and handleAnalyzeResponse runs
\* to its end; a verdict is written to the history by the last line of
\* displayAnalysisResult (script.js line 865)
AnalysisSettles ==
    /\ analysis.pc = "await"
    /\ \E answer \in AnalysisAnswers :
          /\ analysis' = IdleAnalysis
          /\ history' = IF AnalysisPath(answer) = "verdict"
                        THEN updateLatestHistoryVerdict(history, Prop(answer.data, KeyVerdict),
                                                        Prop(answer.data, KeyConfidence))
                        ELSE history
          /\ analyzeBtn' = ButtonAfter(AnalysisPath(answer))
    /\ UNCHANGED <<requestEditor, responseEditor, lastSentRequest, send, asks>>
    /\ UNCHANGED <<chat, statePayloads, payloadOptions, stateInjectionPoints, payloadSelect,
                   injectionPointSelect>>
    /\ RequestUnchanged
    /\ HandlerUnchanged
    /\ UNCHANGED pc

\* the server before a request to /api/ai-analyze
ServerIdle ==
    /\ engine = "current"
    /\ prompt = <<>>
    /\ context = NoContext
    /\ HandlerIdle

\* a request is typed, and a payload and an injection point are selected; the
\* injection point is read only when a payload is selected (script.js line
\* 219), and is left at Auto otherwise
InitSession ==
    /\ ServerIdle
    /\ chat = <<>>
    /\ statePayloads = JUndefined
    /\ payloadOptions = <<>>
    /\ stateInjectionPoints = JArr(<<>>)
    /\ payloadSelect \in SelectablePayloads
    /\ injectionPointSelect \in SelectablePoints
    /\ payloadSelect = <<>> => injectionPointSelect = <<>>
    /\ send = IdleSend
    /\ analysis = IdleAnalysis
    /\ analyzeBtn = AnalyzeButton
    /\ asks = [i \in 1..MaxAsks |-> "idle"]
    /\ requestEditor \in RawRequests
    /\ responseEditor = EmptyEditor
    /\ lastSentRequest = NullRequest
    /\ history = <<>>

NextSession ==
    \/ SendRequest
    \/ SendRequestInvalid
    \/ ProxyForwards
    \/ TargetResponds
    \/ TargetFails
    \/ viewHistoryItem
    \/ AnalyzeResponse
    \/ AnalysisSettles

SpecSession == InitSession /\ [][NextSession]_vars

\* The fetch of script.js line 279 settles: the server answers every request
\* (its call of the model has a timeout of 60 s, server.js line 583), or the
\* connection fails; the event loop then runs handleAnalyzeResponse on.
SpecSessionLive == SpecSession /\ WF_vars(AnalysisSettles)

----------------------------------------------------------------------------
(* The chat with several calls of handleAskAI under way: the button is not
   disabled while a request waits (script.js lines 93-117). *)

\* what a call does with its answer: the messages the try block adds after
\* it removed the last message (script.js lines 127-192), and whether it then
\* raises; or the fetch rejects or answers with an error status, so that only
\* the catch runs
ChatAnswers ==
    {[ok |-> TRUE, messages |-> m, raises |-> FALSE] :
        m \in {<<"freeText">>, <<"warning", "explanation">>, <<"parseFailure", "rawLogged">>}}
      \cup {[ok |-> TRUE, messages |-> m, raises |-> TRUE] : m \in {<<>>, <<"explanation">>}}
      \cup {[ok |-> FALSE, messages |-> <<>>, raises |-> TRUE]}

\* script.js lines 93-117 for the call i
AskAI(i) ==
    /\ asks[i] = "idle"
    /\ asks' = [asks EXCEPT ![i] = "waiting"]
    /\ chat' = chat \o <<"user", "thinking">>
    /\ UNCHANGED <<statePayloads, payloadOptions>>
    /\ UNCHANGED <<stateInjectionPoints, history, payloadSelect, injectionPointSelect>>
    /\ UNCHANGED <<requestEditor, responseEditor, lastSentRequest, send, analysis, analyzeBtn>>
    /\ RequestUnchanged
    /\ HandlerUnchanged
    /\ UNCHANGED pc

\* script.js lines 119-201 for the call i: line 127 removes the last message
\* of the chat, whatever it is
AskSettles(i) ==
    /\ asks[i] = "waiting"
    /\ asks' = [asks EXCEPT ![i] = "done"]
    /\ \E answer \in ChatAnswers :
          chat' = IF ~answer.ok THEN CatchError(chat)
                  ELSE IF answer.raises
                  THEN CatchError(Upto(chat, Len(chat) - 1) \o answer.messages)
                  ELSE Upto(chat, Len(chat) - 1) \o answer.messages
    /\ UNCHANGED <<statePayloads, payloadOptions>>
    /\ UNCHANGED <<stateInjectionPoints, history, payloadSelect, injectionPointSelect>>
    /\ UNCHANGED <<requestEditor, responseEditor, lastSentRequest, send, analysis, analyzeBtn>>
    /\ RequestUnchanged
    /\ HandlerUnchanged
    /\ UNCHANGED pc

InitChat ==
    /\ ServerIdle
    /\ PageLoaded
    /\ PanelEmpty

NextChat == \E i \in 1..MaxAsks : AskAI(i) \/ AskSettles(i)

SpecChat == InitChat /\ [][NextChat]_vars

----------------------------------------------------------------------------
(* Properties *)

\* the handler has answered
Answered == pc \in {"client", "done"}

\* the answer carries a value obtained by a parse (not the fallback)
Parsed == Answered /\ strategy \in {"direct", "cleanup", "truncation", "extraction"}

\* the values that JavaScript takes for false among those the replies hold
FalsyValues == {JNull, JFalse, JNum(<<"0">>), JStr(<<>>)}

\* the value of the key is one that is truthy whatever its content: an array,
\* an object, true or a non-empty string
HoldsValue(v, key) ==
    /\ HasKey(v, key)
    /\ \/ Get(v, key).t \in {"arr", "obj", "true"}
       \/ Get(v, key).t = "str" /\ Get(v, key).s # <<>>

\* C1: a candidate text that is a valid JSON object is returned as parsed by the
\* direct parse: attemptJSONRepair is not invoked (no working string, no later
\* error) and the response carries no warning.
C1_DirectParse ==
    (Answered /\ reply.isString /\ JSONParse(jsonString).ok
       /\ JSONParse(jsonString).val.t = "obj")
      => /\ strategy = "direct"
         /\ res.status = 200
         /\ res.data = JSONParse(jsonString).val
         /\ res.warning = NoWarning
         /\ workingString = <<>>
         /\ lastError = NoError

C1_Witness ==
    /\ pc = "done"
    /\ strategy = "direct"
    /\ res.data.t = "obj"
    /\ Len(res.data.k) >= 2
    /\ res.warning = NoWarning

\* the text with every escape \' of a string turned into a bare apostrophe;
\* an escaped backslash is read as one unit, so its second character starts no
\* escape
RECURSIVE WithoutApostropheEscapes(_)
WithoutApostropheEscapes(s) ==
    IF s = <<>> THEN <<>>
    ELSE IF s[1] = BS /\ Len(s) >= 2
    THEN (IF s[2] = AP THEN <<AP>> ELSE <<s[1], s[2]>>)
           \o WithoutApostropheEscapes(SubSeq(s, 3, Len(s)))
    ELSE <<s[1]>> \o WithoutApostropheEscapes(Tail(s))

\* the only defect of the candidate text is its \' escapes
OnlyApostropheEscapes(s) ==
    /\ ~JSONParse(s).ok
    /\ JSONParse(WithoutApostropheEscapes(s)).ok
    /\ JSONParse(WithoutApostropheEscapes(s)).val.t = "obj"

\* C2: a candidate text whose only defect is \' inside its string values is
\* answered with the object it denotes once every \' is a bare apostrophe, and
\* with the warning of the automatic repair.
C2_EscapeRepair ==
    (Answered /\ reply.isString /\ OnlyApostropheEscapes(jsonString))
      => /\ res.status = 200
         /\ strategy = "cleanup"
         /\ res.data = JSONParse(WithoutApostropheEscapes(jsonString)).val
         /\ res.warning = WarnAutoRepaired

\* the reply {"payloads": [ followed by the string literals of f
TruncatedText(f) ==
    <<"{", DQ, "p", "a", "y", "l", "o", "a", "d", "s", DQ, ":", " ", "[">> \o Join(f, <<",">>)

\* the object whose payloads are the strings of the literals of f
PayloadsOf(f) ==
    JObj(<<KeyPayloads>>,
         <<JArr([i \in 1..Len(f) |-> JStr(SubSeq(f[i], 2, Len(f[i]) - 1))])>>)

\* C3: a reply {"payloads": [ followed by complete string literals and nothing
\* else is answered with exactly those strings as data.payloads, and with the
\* warning of the truncation repair.
C3_TruncationRepair ==
    \A f \in SeqsUpTo(PayloadLiterals, MaxPieces) \ {<<>>} :
        (Answered /\ reply.isString /\ reply.text = TruncatedText(f))
          => /\ res.status = 200
             /\ res.data = PayloadsOf(f)
             /\ res.warning = WarnTruncated

\* C4: a reply that is a valid JSON object O followed by trailing text is
\* answered with O as data, whatever the trailing text is.
C4_TrailingText ==
    \A o \in LeadObjects :
        (Answered /\ reply.isString /\ StartsWithAt(reply.text, 1, o))
          => /\ res.status = 200
             /\ strategy # "fallback"
             /\ res.data = JSONParse(o).val

\* the direct parse and every strategy of the repair failed
Exhausted ==
    /\ Answered
    /\ reply.isString
    /\ ~JSONParse(jsonString).ok
    /\ ~CleanupStep(jsonString, workingString, parseError).success
    /\ ~TruncationStep(workingString).success
    /\ ~ExtractionStep(workingString).success

\* the answer to an exhausted chain, with parseError the message of error
FallbackAnswer(error) ==
    /\ strategy = "fallback"
    /\ res.status = 200
    /\ res.success
    /\ res.data.t = "obj"
    /\ res.data.k = <<KeyMessage, KeyParseError, KeyHint>>
    /\ Get(res.data, KeyMessage) = JStr(reply.text)
    /\ Get(res.data, KeyParseError) = JStr(MessageChars(error))
    /\ Get(res.data, KeyHint).t = "str"
    /\ Get(res.data, KeyHint).s # <<>>
    /\ Get(res.data, KeyHint).s # <<"">>

ClassificationKeys ==
    {KeyInjectionPoints, KeyPayloads, KeyVerdict, KeyExplanation}

\* the outcome that the precedence order gives an object, by the presence of
\* its keys
ByPresence(data) ==
    IF HasKey(data, KeyInjectionPoints) /\ HasKey(data, KeyPayloads) THEN "CombinedReport"
    ELSE IF HasKey(data, KeyInjectionPoints) THEN "InjectionReport"
    ELSE IF HasKey(data, KeyPayloads) THEN "PayloadReport"
    ELSE IF HasKey(data, KeyVerdict) THEN "AnalysisVerdict"
    ELSE IF HasKey(data, KeyExplanation) THEN "Generic"
    ELSE "FreeText"

\* C6: a successfully parsed object is handled by exactly the outcome that comes
\* first in the order CombinedReport, InjectionReport, PayloadReport,
\* AnalysisVerdict, generic message, FreeText.  The objects here hold no null,
\* false, 0 or "" in the fields of the order (those are the matter of C7).
C6_Precedence ==
    (/\ pc = "done"
     /\ Parsed
     /\ res.data.t = "obj"
     /\ \A key \in ClassificationKeys :
            HasKey(res.data, key) => Get(res.data, key) \notin FalsyValues)
      => outcome = ByPresence(res.data)

C8_NeverRaises ==
    (pc = "done" /\ Parsed) => ~threw

\* C9: every string reply is answered {success: true, data, rawMessage} with
\* status 200: neither extractAndCleanJSON nor attemptJSONRepair lets an
\* exception reach the handler's catch.
C9_NoHttpError ==
    reply.isString
      => /\ pc # "catch"
         /\ Answered => /\ res.status = 200
                        /\ res.success
                        /\ res.rawMessage = reply.text
                        /\ res.data = parsedResponse

C9_Witness ==
    /\ pc = "done"
    /\ reply.isString
    /\ res.status = 200
    /\ Includes(jsonString, <<"{">>)
    /\ BalancedEnd(workingString) = 0

\* the text holds a block <think>...</think>
HasThinkBlock(s) ==
    \E o \in 1..Len(s) :
        StartsWithAt(s, o, ThinkOpen) /\ IndexOfFrom(s, ThinkClose, o + Len(ThinkOpen)) # 0

\* C10: the sanitized text of a reply that holds <think>...</think> blocks
\* holds no <think>.
C10_NoThinkTag ==
    (pc # "extract" /\ reply.isString /\ HasThinkBlock(reply.text))
      => ~Includes(cleanedText, ThinkOpen)

\* C11: a reasoning block is removed whatever the case its tags are written in
\* (<think>, <THINK>, <Think>), also when it spans lines or holds braces: the
\* sanitized text is the object that follows the block, and that object is the
\* data of the answer.
C11_CaseInsensitiveTags ==
    \A tag \in CasedTags, f \in SeqsUpTo(ReasoningPieces, MaxPieces - 1) :
        reply = StringReply(tag.open \o Flatten(f) \o tag.close \o AnswerObject)
            => /\ pc # "extract" => cleanedText = AnswerObject
               /\ Answered => /\ strategy = "direct"
                               /\ res.data = JSONParse(AnswerObject).val

\* C12: the text extractAndCleanJSON returns is empty, or its first
\* non-whitespace character is { and its last non-whitespace character is }.
C12_NormalizedJSONText ==
    (reply.isString /\ pc # "extract")
        => \/ Trim(jsonString) = <<>>
           \/ /\ Head(Trim(jsonString)) = "{"
              /\ Trim(jsonString)[Len(Trim(jsonString))] = "}"

\* C12 as the code has it: the returned text is trimmed; if it holds a { it
\* begins with one, and if it holds a } it ends with one.  A text without
\* braces, or cut off before its closing brace, is returned as it is.
C12_BracesAtTheEnds ==
    (reply.isString /\ pc # "extract")
        => /\ jsonString = Trim(jsonString)
           /\ Includes(jsonString, <<"{">>) => Head(jsonString) = "{"
           /\ Includes(jsonString, <<"}">>) => jsonString[Len(jsonString)] = "}"

\* text was cut away on both sides of an object
C12_Witness ==
    /\ reply.isString /\ pc # "extract"
    /\ Len(jsonString) > 1
    /\ Head(jsonString) = "{" /\ jsonString[Len(jsonString)] = "}"
    /\ \E i \in 2..(Len(reply.text) - Len(jsonString)) :
          /\ SubSeq(reply.text, i, i + Len(jsonString) - 1) = jsonString
          /\ reply.text[i - 1] \notin WhiteSpace
          /\ reply.text[i + Len(jsonString)] \notin WhiteSpace

\* C13: a sanitized text (reasoning blocks and fence markers removed) that
\* holds no { is returned by the rest of extractAndCleanJSON as it is, trimmed:
\* nothing after a } is cut and no leading word is stripped.
C13_NoBraceUnchanged ==
    (reply.isString /\ pc # "extract"
       /\ ~Includes(StripFenceMarkers(Sanitize(reply.text)), <<"{">>))
        => jsonString = Trim(StripFenceMarkers(Sanitize(reply.text)))

\* C14: an object in a ```json fence is located exactly, whatever text stands
\* before and after the fence (braces, other fences) and whatever characters
\* are in the string values of the object.
C14_FenceRoundTrip ==
    \A b \in SeqsUpTo(PadPieces, MaxPieces - 2), o \in LeadObjects,
       a \in SeqsUpTo(PadPieces, MaxPieces - 2) :
        (reply = StringReply(FencedReply(b, o, a)) /\ pc # "extract")
            => jsonString = o

\* C15: the data of a parsed and classified reply, written out by
\* JSON.stringify and run through the chain again, is parsed again and
\* classified as the same variant.
C15_Idempotent ==
    (firstPass.done /\ pc = "done")
        => /\ strategy \in {"direct", "cleanup", "truncation", "extraction"}
           /\ outcome = firstPass.outcome

\* C16: the answer carries a warning whenever its data comes from a repair
\* strategy that altered the candidate text, and none when the direct parse
\* succeeded.
C16_WarningIffRepaired ==
    (Answered /\ res.status = 200)
        => /\ strategy \in {"cleanup", "truncation", "extraction"} => res.warning # NoWarning
           /\ strategy = "direct" => res.warning = NoWarning

\* C17: a reply that holds n payloads and nothing else is handled as a
\* PayloadReport and never as an error; all n payloads are stored in
\* state.payloads and offered in the selector, in their order; the chat gets
\* the truncation advisory if and only if n > 20, and gets it once.
C17_PayloadCount ==
    \A n \in 0..MaxPayloads :
        (reply = StringReply(CountedReply(n)) /\ pc = "done")
            => /\ outcome = "PayloadReport"
               /\ ~threw
               /\ \A i \in 1..Len(chat) : chat[i] \notin {"error", "parseFailure"}
               /\ statePayloads = JArr([j \in 1..n |-> JStr(CountedPayloads(n)[j])])
               /\ payloadOptions = CountedPayloads(n)
               /\ (\E i \in 1..Len(chat) : chat[i] = "advisory") <=> n > 20
               /\ Cardinality({i \in 1..Len(chat) : chat[i] = "advisory"}) <= 1

\* 21 payloads were stored and offered, with the advisory
C17_Witness ==
    /\ reply = StringReply(CountedReply(21))
    /\ pc = "done"
    /\ Len(payloadOptions) = 21
    /\ \E i \in 1..Len(chat) : chat[i] = "advisory"

\* a PayloadReport was handled
PayloadsHandled == pc = "done" /\ outcome = "PayloadReport" /\ statePayloads.t = "arr"

AdvisoryShown == \E i \in 1..Len(chat) : chat[i] = "advisory"

\* C18: a PayloadReport with more than 15 payloads gets the truncation
\* advisory, and is no error.
C18_AdvisoryAboveSoftCap ==
    (PayloadsHandled /\ Len(statePayloads.a) > 15)
        => AdvisoryShown /\ ~threw

\* C18 as the code has it: the advisory is shown for more than 20 payloads
\* and for no fewer (none for 16 to 20); a list of strings is no error,
\* however long.
C18_AdvisoryAboveTwenty ==
    PayloadsHandled
        => /\ AdvisoryShown <=> Len(statePayloads.a) > 20
           /\ (\A j \in 1..Len(statePayloads.a) : statePayloads.a[j].t = "str")
                => ~threw /\ \A i \in 1..Len(chat) : chat[i] # "error"

\* between 16 and 20 payloads were handled, without advisory and without error
C18_Witness ==
    /\ PayloadsHandled
    /\ Len(statePayloads.a) \in 16..20
    /\ Len(payloadOptions) = Len(statePayloads.a)
    /\ ~AdvisoryShown
    /\ ~threw

\* C19: on every path on which the endpoint returned a reply (direct parse,
\* each repair strategy, exhausted chain) the response is {success: true,
\* data, rawMessage, warning?} with status 200, its rawMessage the reply
\* character for character, its data and warning those the path produced.
C19_ResponseShape ==
    (reply.isString /\ Answered)
        => /\ strategy \in {"direct", "cleanup", "truncation", "extraction", "fallback"}
           /\ res = [status |-> 200, success |-> TRUE, data |-> parsedResponse,
                     rawMessage |-> reply.text, warning |-> warning]
           /\ strategy \in {"direct", "fallback"} => res.warning = NoWarning

\* a repaired answer to a reply that the locator and the repair each cut
\* text from
C19_Witness ==
    /\ Answered
    /\ strategy = "extraction"
    /\ res.warning = WarnExtracted
    /\ res.rawMessage # jsonString
    /\ res.data.t = "obj"

\* the text holds the word, in any case of its letters
HoldsWord(text, word) ==
    \E i \in 1..(Len(text) - Len(word) + 1) : StartsWithAtCI(text, i, word)

\* the request is about to be sent in analysis mode, or in discovery mode
SentAsAnalysis ==
    requestBody.system = "systemPromptAnalysis" /\ requestBody.temperature = "0.1"

SentAsDiscovery ==
    requestBody.system = "systemPromptDiscovery" /\ requestBody.temperature = "0.6"

\* C20 as the code has it: the request goes out in analysis mode if and only
\* if the prompt holds "analyze" or the context holds "response:" (in any
\* case), and in discovery mode otherwise; the system prompt of a mode never
\* goes out with the temperature of the other.  A discovery prompt whose
\* context is a raw request is sent in discovery mode unless the text of the
\* request itself holds "response:".
C20_ModeSelection ==
    pc = "call"
        => /\ SentAsAnalysis \/ SentAsDiscovery
           /\ SentAsAnalysis <=>
                 \/ HoldsWord(prompt, <<"a", "n", "a", "l", "y", "z", "e">>)
                 \/ ~context.isNull
                      /\ HoldsWord(context.text, <<"r", "e", "s", "p", "o", "n", "s", "e", ":">>)

\* C20: the same, and a prompt such as "find injection points" with a raw
\* request as its context is always sent in discovery mode.
C20_RawRequestIsDiscovery ==
    /\ C20_ModeSelection
    /\ (pc = "call"
          /\ prompt = <<"f", "i", "n", "d", " ", "i", "n", "j", "e", "c", "t", "i", "o", "n", " ", "p", "o", "i", "n", "t", "s">>
          /\ context.text \in {RawRequest, RawRequestWithKeyword})
        => SentAsDiscovery

\* a prompt without "analyze" goes out in analysis mode, for the RESPONSE: of
\* its context
C20_Witness ==
    /\ pc = "call"
    /\ ~HoldsWord(prompt, <<"a", "n", "a", "l", "y", "z", "e">>)
    /\ context.text = <<"R", "E", "S", "P", "O", "N", "S", "E", ":">>
    /\ SentAsAnalysis

\* a message of the AI other than the loading message is in the chat
Rendered == \E i \in 1..Len(chat) : chat[i] \notin {"user", "thinking"}

\* C21: every request whose fetch has settled, with whatever answer of the
\* server, is followed by a state in which handleAskAI has returned, the
\* loading message is gone and the chat holds at least one message of the AI
C21_AlwaysRendered ==
    (pc = "client") ~> (pc = "done" /\ Rendered /\ chat[Len(chat)] # "thinking")

\* a handler raised after the loading message was removed, and the message of
\* the catch is what the user sees
C21_Witness ==
    /\ pc = "done"
    /\ threw
    /\ chat = <<"user", "error">>

\* the strategies of attemptJSONRepair in the order of the claim, each with
\* the strategy that follows it
RepairOrder == <<"cleanup", "truncation", "extraction", "fallback">>

\* what the strategy named makes of the text w: the cleanup parses w, the
\* truncation repair parses w with the closers appended, the extraction parses
\* the first balanced object of w itself
Attempt(name, w) ==
    CASE name = "cleanup" -> CleanupStep(jsonString, w, parseError)
      [] name = "truncation" -> TruncationStep(w)
      [] OTHER -> ExtractionStep(w)

\* C22: the strategies run in the order cleanup, truncation repair,
\* extraction; a strategy whose parse succeeds hands its data and its warning
\* to the handler and no later strategy runs; one that fails hands the text on
\* unchanged.  The text of the truncation repair and of the extraction is the
\* output of the cleanup, without the closers of the truncation repair.
C22_StrategyOrder ==
    [][\A n \in 1..3 :
          /\ pc' = RepairOrder[n + 1] => pc = RepairOrder[n]
          /\ pc = RepairOrder[n] =>
                /\ workingString' = CleanedWorkingString(jsonString, parseError)
                /\ \E step \in {Attempt(RepairOrder[n], workingString')} :
                      IF step.success
                      THEN /\ pc' = "respond"
                           /\ strategy' = RepairOrder[n]
                           /\ parsedResponse' = step.data
                           /\ warning' = step.warning
                      ELSE /\ pc' = RepairOrder[n + 1]
                           /\ UNCHANGED <<strategy, parsedResponse, warning>>]_vars

\* the cleanup changed the text and its parse failed, and the extraction
\* succeeded on the cleaned text where it fails on the text before the cleanup
C22_Witness ==
    /\ pc = "respond"
    /\ strategy = "extraction"
    /\ workingString # jsonString
    /\ ~ExtractionStep(jsonString).success
    /\ warning = WarnExtracted

\* C26: the client shows the parse failure exactly for the answers whose
\* data is the server's fallback (the direct parse and every repair failed);
\* an answer the server parsed is dispatched, whatever its fields
C26_ParseFailureIffExhausted ==
    (pc = "done" /\ res.status = 200)
      => (outcome = "ParseFailure" <=> strategy = "fallback")

\* the messages other than the loading message, in their order
Kept(messages) == SelectSeq(messages, LAMBDA kind : kind # "thinking")

IsPrefix(s, t) == Len(s) <= Len(t) /\ \A j \in 1..Len(s) : s[j] = t[j]

\* C23: with several calls of handleAskAI under way, a call that completes
\* removes only a loading message: every user message and every answer stays
\* in the chat, in its place, and once every call has completed no loading
\* message is left.
C23_OnlyPlaceholdersRemoved ==
    [][/\ IsPrefix(Kept(chat), Kept(chat'))
       /\ (\A i \in 1..MaxAsks : asks'[i] # "waiting") =>
              \A j \in 1..Len(chat') : chat'[j] # "thinking"]_vars

\* C24: a verdict is recorded only on the history entry of the request and
\* response that were analysed, also when another request is sent during the
\* analysis or an older entry is loaded into the editors before it.
C24_VerdictOnAnalysedEntry ==
    [][\A index \in 1..Len(history) :
          history'[index].verdict # history[index].verdict =>
              /\ history[index].request = analysis.request
              /\ history[index].response = analysis.response]_vars

\* the request of requestEditor as handleSendRequest sends it when no
\* payload is selected
Unmodified(rawRequest) == reconstructHttpRequest(RequestToSend(parseHttpRequest(Trim(rawRequest)), <<>>, <<>>))

\* C25: a request sent while a payload is selected goes out with the payload
\* substituted, never unmodified, whatever its shape and whatever the
\* injection point selected (Auto included); the request stored in
\* state.lastSentRequest is the one sent, and the history entry that is
\* labelled with the payload holds it.
C25_PayloadSubstituted ==
    [][/\ (send.pc = "idle" /\ send'.pc = "proxy" /\ payloadSelect # <<>>) =>
              /\ lastSentRequest'.text = reconstructHttpRequest(send'.parsedRequest)
              /\ \/ lastSentRequest'.text # Unmodified(requestEditor)
                 \/ Includes(Unmodified(requestEditor), payloadSelect)
       /\ (Len(history') > Len(history) /\ send.payload # OriginalRequest) =>
              /\ history'[Len(history')].payload = payloadSelect
              /\ history'[Len(history')].request = reconstructHttpRequest(send.parsedRequest)]_vars

\* C29: when the body holds the marker [INJECT], applyPayload replaces every
\* occurrence of it by the payload as it is, whatever characters the payload
\* holds, leaves url and headers alone and ignores the injection point.
C29_MarkerReplacedVerbatim ==
    [][\A parsed \in {parseHttpRequest(Trim(requestEditor))} :
          (/\ send.pc = "idle" /\ send'.pc = "proxy"
           /\ payloadSelect # <<>>
           /\ Includes(parsed.body, INJECT)) =>
              /\ send'.parsedRequest.body = ReplaceVerbatimFrom(parsed.body, 1, payloadSelect)
              /\ send'.parsedRequest.url = parsed.url
              /\ send'.parsedRequest.headers = parsed.headers]_vars

\* C30: the proxy hands the request to axios without the client's
\* Content-Length header, in whatever letter case its name is written, with
\* every other header as received, and leaves the headers it received alone.
C30_ContentLengthDropped ==
    [][(send.pc = "proxy" /\ send'.pc = "target") =>
          /\ send'.config.headers = cleanHeadersOfAnyCase(send.parsedRequest.headers)
          /\ send'.parsedRequest = send.parsedRequest]_vars

\* C27: once handleAnalyzeResponse has started an analysis (the button is
\* disabled and labelled Analyzing...), the button is eventually enabled again
\* with its label Analyze Response, on whatever path the analysis completes.
C27_ButtonReenabled == (analyzeBtn = AnalyzingButton) ~> (analyzeBtn = AnalyzeButton)

\* an analysis has completed with a verdict, and the button is enabled again
C27_Witness ==
    /\ analysis.pc = "idle"
    /\ analyzeBtn = AnalyzeButton
    /\ \E index \in 1..Len(history) : history[index].verdict # NotAnalyzed

----------------------------------------------------------------------------
(* The page after earlier work: a report with injection points and payloads
   was handled, a payload and an injection point are selected, and two
   requests were sent, the first of which has its verdict. *)

\* the request of RawRequests with the JSON body
JsonRequest == CHOOSE rawRequest \in RawRequests : Includes(rawRequest, <<"j", "s", "o", "n">>)

EarlierPayloads == JArr(<<JStr(<<AP, "-", "-">>)>>)

EarlierInjectionPoints == JArr(<<JObj(<< <<"n", "a", "m", "e">> >>, <<JStr(<<"u">>)>>)>>)

\* the entries addHistoryEntry made of the two requests (script.js lines
\* 242-251), the first with the verdict of its analysis
EarlierHistory(sent) ==
    LET Entry(status) ==
            [request |-> sent, response |-> [kind |-> "response", status |-> status],
             payload |-> <<AP, "-", "-">>, verdict |-> NotAnalyzed]
    IN  updateLatestHistoryVerdict(<<Entry(500)>>, JStr(<<"f", "a", "i", "l", "u", "r", "e">>),
                                   JNum(<<"8", "0">>))
          \o <<Entry(200)>>

InitPage ==
    /\ engine \in Engines
    /\ prompt \in Prompts
    /\ context \in Contexts
    /\ HandlerIdle
    /\ chat = <<>>
    /\ statePayloads = EarlierPayloads
    /\ payloadOptions = PayloadOptions(EarlierPayloads)
    /\ stateInjectionPoints = EarlierInjectionPoints
    /\ payloadSelect = <<AP, "-", "-">>
    /\ injectionPointSelect = <<"u">>
    /\ send = IdleSend
    /\ analysis = IdleAnalysis
    /\ analyzeBtn = AnalyzeButton
    /\ asks = [i \in 1..MaxAsks |-> "idle"]
    /\ requestEditor = JsonRequest
    /\ \E parsed \in {parseHttpRequest(Trim(JsonRequest))} :
       \E request \in {RequestToSend(parsed, <<AP, "-", "-">>, <<"u">>)} :
       \E sent \in {reconstructHttpRequest(request)} :
       \E entries \in {EarlierHistory(sent)} :
          /\ history = entries
          /\ responseEditor = entries[Len(entries)].response
          /\ lastSentRequest = [isNull |-> FALSE, text |-> sent]

SpecPage == InitPage /\ [][Next]_vars

\* C28: handling an outcome changes only the state that belongs to it: an
\* InjectionReport replaces state.injectionPoints and leaves state.payloads
\* alone, a PayloadReport replaces state.payloads and leaves
\* state.injectionPoints alone, a CombinedReport replaces both, and a generic
\* answer, a free text and a parse failure leave both alone; no step adds or
\* removes a history entry, and an entry changes only in its verdict, and only
\* when the outcome is a verdict.
C28_OutcomeFrame ==
    [][/\ (pc = "client" /\ pc' = "done") =>
              /\ outcome' = "InjectionReport" =>
                    /\ stateInjectionPoints' = Prop(res.data, KeyInjectionPoints)
                    /\ statePayloads' = statePayloads
              /\ outcome' = "PayloadReport" =>
                    /\ statePayloads' = Prop(res.data, KeyPayloads)
                    /\ stateInjectionPoints' = stateInjectionPoints
              /\ outcome' = "CombinedReport" =>
                    /\ stateInjectionPoints' = Prop(res.data, KeyInjectionPoints)
                    /\ statePayloads' = Prop(res.data, KeyPayloads)
              /\ outcome' \in {"Generic", "FreeText", "ParseFailure"} =>
                    /\ stateInjectionPoints' = stateInjectionPoints
                    /\ statePayloads' = statePayloads
       /\ Len(history') = Len(history)
       /\ \A index \in 1..Len(history) :
             history'[index] # history[index] =>
                 /\ outcome' = "AnalysisVerdict"
                 /\ history'[index] = [history[index] EXCEPT !.verdict = history'[index].verdict]]_vars

\* a verdict was handled: the latest entry has it, the first entry and the
\* state of the reports are as they were
C28_Witness ==
    /\ pc = "done"
    /\ outcome = "AnalysisVerdict"
    /\ Len(history) = 2
    /\ history[1].response.status = 500
    /\ history[1].verdict = <<"f", "a", "i", "l", "u", "r", "e", " ", "(", "8", "0", "%", ")">>
    /\ history[2].response.status = 200
    /\ history[2].verdict \notin {NotAnalyzed, history[1].verdict}
    /\ statePayloads = EarlierPayloads
    /\ stateInjectionPoints = EarlierInjectionPoints

====
